---- MODULE Spec2Model ----
(***************************************************************************)
(* Model of the AX.25 link layer API of gr-packet-protocols                *)
(* (lib/ax25_protocol.c): the TNC's connection table, the single transmit  *)
(* and receive frame slots with their shared frame_ready flag, and the     *)
(* operations ax25_connect, ax25_disconnect, ax25_send_data and            *)
(* ax25_receive_data.                                                      *)
(*                                                                         *)
(* With it, the adaptive rate control block                                *)
(* (lib/adaptive_rate_control_impl.cc): mode catalog, set_modulation_mode, *)
(* set_tier4_enabled, set_adaptation_enabled, update_quality and           *)
(* recommend_mode; and the modulation negotiation block                    *)
(* (lib/modulation_negotiation_impl.cc): initiate_negotiation,             *)
(* handle_negotiation_frame, work with its timeout and check_mode_change,  *)
(* and the block's mutex.                                                  *)
(***************************************************************************)
EXTENDS Integers, Sequences, FiniteSets, TLC

(***************************************************************************)
(* Program constants.                                                      *)
(***************************************************************************)
NumSlots == 16
AX25_CTRL_I == 0
AX25_CTRL_SABM == 47
AX25_CTRL_DISC == 67
AX25_CTRL_UA == 99
AX25_PID_NONE == 240
AX25_MAX_INFO == 256
DefaultWindowSize == 4
DefaultT1Timeout == 3000
DefaultMaxRetries == 3

(***************************************************************************)
(* Bounds of the model.                                                    *)
(***************************************************************************)
\* Stations connected, one ax25_connect each, before the stations under
\* study are used (so that a full table is reached).
Prefill == 15
\* The count of unacknowledged I-frames is kept up to this many (and no further).
MaxOutstanding == 5
\* T1 intervals that are let elapse on one connecting slot.
MaxT1 == 3

VARIABLES
    connections,      \* tnc->connections[16]
    num_connections,  \* tnc->num_connections
    tx_frame,         \* tnc->tx_frame
    rx_frame,         \* tnc->rx_frame
    frame_ready,      \* tnc->frame_ready (one flag for both directions)
    last,             \* the last API call: function, remote, return value, data out
    outstanding,      \* history: per slot, I-frames sent and not acknowledged by N(R)
    last_ns,          \* history: per slot, N(S) of the last I-frame sent, -1 if none
    t1_expired,       \* history: per slot, T1 intervals elapsed without a frame from the peer
    rc,               \* the adaptive_rate_control block's members
    neg,              \* the modulation_negotiation block's members
    d_mutex,          \* modulation_negotiation_impl::d_mutex: the thread that holds it
    d_reed_solomon_encoder,  \* the FEC block's ReedSolomonEncoder object, or nullptr
    d_reed_solomon_decoder   \* the FEC block's ReedSolomonDecoder object, or nullptr

linkVars == <<connections, num_connections, tx_frame, rx_frame, frame_ready>>
histVars == <<outstanding, last_ns, t1_expired>>
fecVars == <<d_reed_solomon_encoder, d_reed_solomon_decoder>>
tncVars == <<connections, num_connections, tx_frame, rx_frame, frame_ready,
             outstanding, last_ns, t1_expired, fecVars>>
blockVars == <<rc, neg, d_mutex, fecVars>>
vars == <<connections, num_connections, tx_frame, rx_frame, frame_ready, last,
          outstanding, last_ns, t1_expired, rc, neg, d_mutex,
          d_reed_solomon_encoder, d_reed_solomon_decoder>>

Slots == 1..NumSlots

(***************************************************************************)
(* Addresses.  The callsign octets are kept as the callsign itself; the    *)
(* SSID octet is the octet ax25_set_address builds.                        *)
(***************************************************************************)
ZeroAddr == [callsign |-> "", ssid |-> 0]

ax25_set_address(callsign, ssid, command) ==
    [callsign |-> callsign,
     ssid |-> ((ssid % 16) * 2) + (IF command THEN 128 ELSE 0) + 1]

ax25_address_equal(addr1, addr2) ==
    addr1.callsign = addr2.callsign /\ addr1.ssid = addr2.ssid

\* tnc->config.my_address after ax25_init (memset to zero).
MyAddress == ZeroAddr

Peer1 == ax25_set_address("PEER1", 0, FALSE)
Peer2 == ax25_set_address("PEER2", 0, FALSE)
Background(k) == ax25_set_address("FILL", k - 1, FALSE)
BackgroundAddrs == {Background(k) : k \in 1..Prefill}

(***************************************************************************)
(* Frames.  The information field is its length and a tag for its octets.  *)
(***************************************************************************)
NoInfo == [length |-> 0, tag |-> 0]
ZeroFrame == [valid |-> FALSE, num_addresses |-> 0, dst |-> ZeroAddr, src |-> ZeroAddr,
              control |-> 0, pid |-> 0, info |-> NoInfo]

\* ax25_create_frame, for info_len <= AX25_MAX_INFO.
ax25_create_frame(src, dst, control, pid, info) ==
    [valid |-> TRUE, num_addresses |-> 2, dst |-> dst, src |-> src,
     control |-> control, pid |-> pid,
     info |-> IF info.length > 0 THEN info ELSE NoInfo]

IFrameControlSwapped(send_seq, recv_seq) == AX25_CTRL_I + (recv_seq * 2) + (send_seq * 32)
\* control octet of an I-frame: N(S) in bits 1..3, N(R) in bits 5..7.
IFrameControl(send_seq, recv_seq) == (AX25_CTRL_I + (send_seq * 2) + (recv_seq * 32)) % 256

FrameNS(f) == (f.control \div 2) % 8
FrameNR(f) == (f.control \div 32) % 8
IsIFrame(f) == f.control % 2 = 0

NextSeqNoWrap(v) == v + 1
\* (seq + 1) % 8
NextSeq(v) == (v + 1) % 8

(***************************************************************************)
(* The connection table.                                                   *)
(***************************************************************************)
ZeroConn == [state |-> "DISCONNECTED", remote_addr |-> ZeroAddr, local_addr |-> ZeroAddr,
             send_seq |-> 0, recv_seq |-> 0, window_size |-> 0, timeout |-> 0,
             retry_count |-> 0]

Min(S) == CHOOSE x \in S : \A y \in S : x <= y

find_connection_connected_only(remote_addr) ==
    LET hit == {i \in Slots : connections[i].state = "CONNECTED"
                              /\ ax25_address_equal(connections[i].remote_addr, remote_addr)}
    IN  IF hit = {} THEN 0 ELSE Min(hit)
\* The first slot not DISCONNECTED whose remote address equals remote_addr; 0 for NULL.
find_connection(remote_addr) ==
    LET hit == {i \in Slots : connections[i].state # "DISCONNECTED"
                              /\ ax25_address_equal(connections[i].remote_addr, remote_addr)}
    IN  IF hit = {} THEN 0 ELSE Min(hit)

find_free_connection_last_slot ==
    LET free == {i \in Slots : connections[i].state = "DISCONNECTED"}
    IN  IF free = {} THEN NumSlots ELSE Min(free)
\* The first DISCONNECTED slot; 0 for NULL.
find_free_connection ==
    LET free == {i \in Slots : connections[i].state = "DISCONNECTED"}
    IN  IF free = {} THEN 0 ELSE Min(free)

IsEstablishedNotDisconnected(conn) == conn.state # "DISCONNECTED"
\* ax25_send_data's test that the connection is established.
IsEstablished(conn) == conn.state = "CONNECTED"

Call(fn, remote, ret, out) == [fn |-> fn, remote |-> remote, ret |-> ret, out |-> out]

(***************************************************************************)
(* ax25_init.                                                              *)
(***************************************************************************)
ax25_init ==
    /\ connections = [i \in Slots |-> ZeroConn]
    /\ num_connections = 0
    /\ tx_frame = ZeroFrame
    /\ rx_frame = ZeroFrame
    /\ frame_ready = FALSE
    /\ outstanding = [i \in Slots |-> 0]
    /\ last_ns = [i \in Slots |-> -1]
    /\ t1_expired = [i \in Slots |-> 0]

(***************************************************************************)
(* ax25_connect(tnc, remote_addr).                                         *)
(***************************************************************************)
ax25_connect(remote_addr) ==
    LET found == find_connection(remote_addr)
        free == find_free_connection
    IN  IF found # 0 /\ connections[found].state \in {"CONNECTED", "CONNECTING"}
        THEN \* already connected or connecting: return 0
             /\ last' = Call("ax25_connect", remote_addr, 0, NoInfo)
             /\ UNCHANGED <<linkVars, histVars>>
        ELSE IF found = 0 /\ free = 0
        THEN \* no free connection slot: return -1
             /\ last' = Call("ax25_connect", remote_addr, -1, NoInfo)
             /\ UNCHANGED <<linkVars, histVars>>
        ELSE LET i == IF found # 0 THEN found ELSE free
                 conn == IF found # 0 THEN connections[found]
                         ELSE [ZeroConn EXCEPT !.local_addr = MyAddress,
                                               !.remote_addr = remote_addr,
                                               !.state = "CONNECTING",
                                               !.send_seq = 0,
                                               !.recv_seq = 0,
                                               !.window_size = DefaultWindowSize,
                                               !.timeout = DefaultT1Timeout,
                                               !.retry_count = 0]
             IN  /\ connections' = [connections EXCEPT ![i] = conn]
                 /\ num_connections' = IF found = 0 THEN num_connections + 1
                                       ELSE num_connections
                 /\ tx_frame' = ax25_create_frame(conn.local_addr, conn.remote_addr,
                                                  AX25_CTRL_SABM, 0, NoInfo)
                 /\ frame_ready' = TRUE
                 /\ last' = Call("ax25_connect", remote_addr, 0, NoInfo)
                 /\ IF found = 0
                    THEN /\ outstanding' = [outstanding EXCEPT ![i] = 0]
                         /\ last_ns' = [last_ns EXCEPT ![i] = -1]
                         /\ t1_expired' = [t1_expired EXCEPT ![i] = 0]
                    ELSE UNCHANGED histVars
                 /\ UNCHANGED rx_frame

(***************************************************************************)
(* ax25_disconnect(tnc, remote_addr).                                      *)
(***************************************************************************)
ax25_disconnect(remote_addr) ==
    LET found == find_connection(remote_addr)
    IN  IF found = 0
        THEN \* connection not found: return -1
             /\ last' = Call("ax25_disconnect", remote_addr, -1, NoInfo)
             /\ UNCHANGED <<linkVars, histVars>>
        ELSE LET conn == connections[found]
             IN  \* state is set to DISCONNECTING, the DISC frame is stored, and the
                 \* slot is then cleared (state DISCONNECTED, memset) in the same call
                 /\ tx_frame' = ax25_create_frame(conn.local_addr, conn.remote_addr,
                                                  AX25_CTRL_DISC, 0, NoInfo)
                 /\ frame_ready' = TRUE
                 /\ connections' = [connections EXCEPT ![found] = ZeroConn]
                 /\ num_connections' = num_connections - 1
                 /\ last' = Call("ax25_disconnect", remote_addr, 0, NoInfo)
                 /\ outstanding' = [outstanding EXCEPT ![found] = 0]
                 /\ last_ns' = [last_ns EXCEPT ![found] = -1]
                 /\ t1_expired' = [t1_expired EXCEPT ![found] = 0]
                 /\ UNCHANGED rx_frame

(***************************************************************************)
(* ax25_send_data(tnc, remote_addr, data, length).                         *)
(***************************************************************************)
ax25_send_data(remote_addr, data) ==
    LET found == find_connection(remote_addr)
    IN  IF \/ data.length = 0
           \/ data.length > AX25_MAX_INFO
           \/ found = 0
           \/ ~IsEstablished(connections[found])
        THEN \* return -1
             /\ last' = Call("ax25_send_data", remote_addr, -1, NoInfo)
             /\ UNCHANGED <<linkVars, histVars>>
        ELSE LET conn == connections[found]
                 control == IFrameControl(conn.send_seq, conn.recv_seq)
             IN  /\ tx_frame' = ax25_create_frame(conn.local_addr, conn.remote_addr,
                                                  control, AX25_PID_NONE, data)
                 /\ frame_ready' = TRUE
                 /\ connections' = [connections EXCEPT
                                       ![found].send_seq = NextSeq(conn.send_seq)]
                 /\ last' = Call("ax25_send_data", remote_addr, 0, NoInfo)
                 /\ outstanding' = [outstanding EXCEPT
                                       ![found] = IF @ < MaxOutstanding THEN @ + 1 ELSE @]
                 /\ last_ns' = [last_ns EXCEPT ![found] = conn.send_seq]
                 /\ UNCHANGED <<num_connections, rx_frame, t1_expired>>

(***************************************************************************)
(* A received frame is stored in tnc->rx_frame and frame_ready is set.     *)
(* The frame and the flag are fields of the TNC that ax25_receive_data     *)
(* reads; the receive path fills them.                                     *)
(***************************************************************************)
RxInfo == [length |-> 1, tag |-> 2]

\* I-frames of peer p.  They carry N(S) = 0; the code does not read N(S).
RxIFrames(p) ==
    {ax25_create_frame(p, MyAddress, IFrameControl(0, nr), AX25_PID_NONE, RxInfo) :
        nr \in 0..7}

RxUAFrame(p) == ax25_create_frame(p, MyAddress, AX25_CTRL_UA, 0, NoInfo)

DeliverFrame(f) ==
    /\ rx_frame' = f
    /\ frame_ready' = TRUE
    /\ last' = Call("frame_received", f.src, 0, NoInfo)
    /\ t1_expired' = [i \in Slots |->
                        IF /\ connections[i].state # "DISCONNECTED"
                           /\ ax25_address_equal(connections[i].remote_addr, f.src)
                        THEN 0 ELSE t1_expired[i]]
    /\ UNCHANGED <<connections, num_connections, tx_frame, outstanding, last_ns>>

(***************************************************************************)
(* ax25_receive_data(tnc, remote_addr, data, length); capacity is the      *)
(* caller's *length on entry.                                              *)
(***************************************************************************)
\* Frames acknowledged by a received N(R) leave the unacknowledged count.
Acked(i, send_seq, nr) ==
    LET left == (send_seq - nr) % 8
    IN  IF left <= outstanding[i] THEN left ELSE outstanding[i]

ax25_receive_data(capacity) ==
    IF \/ ~frame_ready
       \/ ~rx_frame.valid
       \/ rx_frame.num_addresses < 2
       \/ ~IsIFrame(rx_frame)
    THEN \* no frame, invalid frame or not an I-frame: return -1
         /\ last' = Call("ax25_receive_data", ZeroAddr, -1, NoInfo)
         /\ UNCHANGED <<linkVars, histVars>>
    ELSE LET remote == rx_frame.src
             found == find_connection(remote)
             free == find_free_connection
         IN  IF found = 0 /\ free = 0
             THEN \* no free connection slot: return -1
                  /\ last' = Call("ax25_receive_data", remote, -1, NoInfo)
                  /\ UNCHANGED <<linkVars, histVars>>
             ELSE LET i == IF found # 0 THEN found ELSE free
                      conn == IF found # 0 THEN connections[found]
                              ELSE [ZeroConn EXCEPT !.local_addr = MyAddress,
                                                    !.remote_addr = remote,
                                                    !.state = "CONNECTED",
                                                    !.window_size = DefaultWindowSize]
                      \* the code takes bits 5..7 of the control octet
                      recv_seq == (rx_frame.control \div 32) % 8
                      updated == IF recv_seq = NextSeq(conn.recv_seq)
                                 THEN [conn EXCEPT !.recv_seq = recv_seq]
                                 ELSE conn
                  IN  /\ connections' = [connections EXCEPT ![i] = updated]
                      /\ num_connections' = IF found = 0 THEN num_connections + 1
                                            ELSE num_connections
                      /\ IF rx_frame.info.length > capacity
                         THEN \* buffer too small: return -1
                              /\ last' = Call("ax25_receive_data", remote, -1, NoInfo)
                              /\ UNCHANGED frame_ready
                         ELSE /\ last' = Call("ax25_receive_data", remote, 0, rx_frame.info)
                              /\ frame_ready' = FALSE
                      /\ outstanding' = [outstanding EXCEPT ![i] =
                                            IF found = 0 THEN 0
                                            ELSE Acked(i, conn.send_seq, FrameNR(rx_frame))]
                      /\ last_ns' = [last_ns EXCEPT ![i] = IF found = 0 THEN -1 ELSE @]
                      /\ t1_expired' = [t1_expired EXCEPT ![i] = 0]
                      /\ UNCHANGED <<tx_frame, rx_frame>>

(***************************************************************************)
(* One T1 interval (conn->timeout ms) elapses on a connecting slot.  The   *)
(* library has no operation that is run when time passes.                  *)
(***************************************************************************)
T1Elapses(i) ==
    /\ connections[i].state = "CONNECTING"
    /\ t1_expired[i] < MaxT1
    /\ t1_expired' = [t1_expired EXCEPT ![i] = @ + 1]
    /\ last' = Call("t1_elapsed", connections[i].remote_addr, 0, NoInfo)
    /\ UNCHANGED <<linkVars, outstanding, last_ns>>

(***************************************************************************)
(* Adaptive rate control (lib/adaptive_rate_control_impl.cc).              *)
(*                                                                         *)
(* The block's float quantities are kept as integers: an SNR or a          *)
(* hysteresis is a number of steps of 1/SnrStepsPerDb dB, a bit error rate *)
(* is in units of 1e-5 and a quality score in units of 0.01.               *)
(***************************************************************************)
MODE_2FSK == 0
MODE_4FSK == 1
MODE_8FSK == 2
MODE_16FSK == 3
MODE_BPSK == 4
MODE_QPSK == 5
MODE_8PSK == 6
MODE_QAM16 == 7
MODE_QAM64_6250 == 8
MODE_QAM64_12500 == 9
MODE_QAM256 == 10
MODE_BPSK_12500 == 11
MODE_QPSK_12500 == 12
MODE_8PSK_12500 == 13
MODE_QAM16_12500 == 14
MODE_SOQPSK_1M == 15
MODE_SOQPSK_5M == 16
MODE_SOQPSK_10M == 17
MODE_SOQPSK_20M == 18
MODE_SOQPSK_40M == 19

\* modulation_mode_t
Modes == MODE_2FSK..MODE_SOQPSK_40M

\* SNR steps per dB.
SnrStepsPerDb == 2
\* The SNR values given to update_quality and recommend_mode run from
\* SnrBelowZeroDb dB below 0 dB to SnrHighDb dB.
SnrBelowZeroDb == 1
SnrHighDb == 43
SnrLowDb == 0 - SnrBelowZeroDb

dB(x) == x * SnrStepsPerDb

\* rate_thresholds_t {snr_min_dB, snr_max_dB, ber_max, quality_min}
Thresholds(snr_min, snr_max, ber_max, quality_min) ==
    [snr_min_dB |-> dB(snr_min), snr_max_dB |-> dB(snr_max),
     ber_max |-> ber_max, quality_min |-> quality_min]

\* initialize_thresholds: d_mode_thresholds
d_mode_thresholds ==
    (MODE_2FSK :> Thresholds(0, 15, 1000, 30)) @@
    (MODE_4FSK :> Thresholds(8, 20, 500, 50)) @@
    (MODE_8FSK :> Thresholds(12, 25, 100, 70)) @@
    (MODE_16FSK :> Thresholds(18, 30, 50, 80)) @@
    (MODE_BPSK :> Thresholds(6, 18, 1000, 40)) @@
    (MODE_QPSK :> Thresholds(10, 22, 500, 60)) @@
    (MODE_8PSK :> Thresholds(14, 26, 100, 75)) @@
    (MODE_QAM16 :> Thresholds(16, 28, 50, 80)) @@
    (MODE_QAM64_6250 :> Thresholds(20, 32, 10, 85)) @@
    (MODE_QAM64_12500 :> Thresholds(22, 35, 10, 90)) @@
    (MODE_QAM256 :> Thresholds(28, 40, 5, 95)) @@
    (MODE_BPSK_12500 :> Thresholds(8, 20, 500, 50)) @@
    (MODE_QPSK_12500 :> Thresholds(12, 24, 200, 65)) @@
    (MODE_8PSK_12500 :> Thresholds(16, 28, 80, 78)) @@
    (MODE_QAM16_12500 :> Thresholds(18, 30, 30, 82)) @@
    (MODE_SOQPSK_1M :> Thresholds(10, 25, 100, 60)) @@
    (MODE_SOQPSK_5M :> Thresholds(15, 30, 50, 70)) @@
    (MODE_SOQPSK_10M :> Thresholds(18, 33, 30, 75)) @@
    (MODE_SOQPSK_20M :> Thresholds(22, 36, 20, 80)) @@
    (MODE_SOQPSK_40M :> Thresholds(26, 40, 10, 85))

\* initialize_thresholds: d_mode_data_rates (bits per second)
d_mode_data_rates ==
    (MODE_2FSK :> 1200) @@ (MODE_4FSK :> 2400) @@ (MODE_8FSK :> 3600) @@
    (MODE_16FSK :> 4800) @@ (MODE_BPSK :> 1200) @@ (MODE_QPSK :> 2400) @@
    (MODE_8PSK :> 3600) @@ (MODE_QAM16 :> 9600) @@ (MODE_QAM64_6250 :> 37500) @@
    (MODE_QAM64_12500 :> 75000) @@ (MODE_QAM256 :> 100000) @@
    (MODE_BPSK_12500 :> 12500) @@ (MODE_QPSK_12500 :> 25000) @@
    (MODE_8PSK_12500 :> 37500) @@ (MODE_QAM16_12500 :> 50000) @@
    (MODE_SOQPSK_1M :> 1000000) @@ (MODE_SOQPSK_5M :> 5000000) @@
    (MODE_SOQPSK_10M :> 10000000) @@ (MODE_SOQPSK_20M :> 20000000) @@
    (MODE_SOQPSK_40M :> 40000000)

get_thresholds(mode) ==
    IF mode \in DOMAIN d_mode_thresholds
    THEN d_mode_thresholds[mode]
    ELSE Thresholds(0, 15, 1000, 30)

\* get_data_rate, for a given mode
data_rate(mode) ==
    IF mode \in DOMAIN d_mode_data_rates THEN d_mode_data_rates[mode] ELSE 1200

is_tier4_mode_40M_only(mode) == mode = MODE_SOQPSK_40M

is_tier4_mode(mode) ==
    mode \in {MODE_SOQPSK_1M, MODE_SOQPSK_5M, MODE_SOQPSK_10M,
              MODE_SOQPSK_20M, MODE_SOQPSK_40M}

\* The order in which recommend_mode goes through the modes.
RecommendOrder ==
    <<MODE_SOQPSK_40M, MODE_SOQPSK_20M, MODE_SOQPSK_10M, MODE_SOQPSK_5M,
      MODE_SOQPSK_1M, MODE_QAM256, MODE_QAM64_12500, MODE_QAM16_12500,
      MODE_8PSK_12500, MODE_QPSK_12500, MODE_BPSK_12500, MODE_QAM64_6250,
      MODE_QAM16, MODE_16FSK, MODE_8PSK, MODE_8FSK, MODE_QPSK, MODE_4FSK,
      MODE_BPSK, MODE_2FSK>>

\* The loop of recommend_mode from its i-th mode on.
RECURSIVE recommend_scan(_, _, _, _, _)
recommend_scan(i, best_mode, best_rate, snr_db, ber) ==
    IF i > Len(RecommendOrder)
    THEN best_mode
    ELSE LET mode == RecommendOrder[i]
             thresholds == get_thresholds(mode)
             take == /\ ~(is_tier4_mode(mode) /\ ~rc.d_enable_tier4)
                     /\ mode \in DOMAIN d_mode_data_rates
                     /\ snr_db >= thresholds.snr_min_dB
                     /\ snr_db <= thresholds.snr_max_dB
                     /\ ber <= thresholds.ber_max
                     /\ d_mode_data_rates[mode] > best_rate
         IN  IF take
             THEN recommend_scan(i + 1, mode, d_mode_data_rates[mode], snr_db, ber)
             ELSE recommend_scan(i + 1, best_mode, best_rate, snr_db, ber)

recommend_mode(snr_db, ber) == recommend_scan(1, MODE_2FSK, 0, snr_db, ber)

\* A call on one of the two blocks: function, arguments, return value and
\* the KISS frames the call gave to send_kiss_frame, in order.
BlockCall(fn, args, ret, sent) == [fn |-> fn, args |-> args, ret |-> ret, sent |-> sent]

\* adaptive_rate_control_impl::adaptive_rate_control_impl
adaptive_rate_control_impl(initial_mode, enable_adaptation, hysteresis_db, enable_tier4) ==
    [d_current_mode |-> IF is_tier4_mode(initial_mode) /\ ~enable_tier4
                        THEN MODE_2FSK ELSE initial_mode,
     d_adaptation_enabled |-> enable_adaptation,
     d_hysteresis_db |-> hysteresis_db,
     d_enable_tier4 |-> enable_tier4,
     d_last_snr_db |-> 0,
     d_last_mode |-> initial_mode]

\* adaptive_rate_control::make with its default arguments
DefaultRateControl == adaptive_rate_control_impl(MODE_2FSK, TRUE, dB(2), FALSE)

get_modulation_mode == rc.d_current_mode

\* The state of the rate control after set_modulation_mode(mode).
ModeSet(mode) ==
    IF is_tier4_mode(mode) /\ ~rc.d_enable_tier4
    THEN rc
    ELSE [rc EXCEPT !.d_current_mode = mode, !.d_last_mode = mode]

set_modulation_mode(mode) ==
    /\ rc' = ModeSet(mode)
    /\ last' = BlockCall("set_modulation_mode", [mode |-> mode], 0, <<>>)

set_adaptation_enabled(enabled) ==
    /\ rc' = [rc EXCEPT !.d_adaptation_enabled = enabled]
    /\ last' = BlockCall("set_adaptation_enabled", [enabled |-> enabled], 0, <<>>)

set_tier4_enabled(enabled) ==
    /\ rc' = IF ~enabled /\ is_tier4_mode(rc.d_current_mode)
             THEN [rc EXCEPT !.d_enable_tier4 = enabled,
                             !.d_current_mode = MODE_2FSK,
                             !.d_last_mode = MODE_2FSK]
             ELSE [rc EXCEPT !.d_enable_tier4 = enabled]
    /\ last' = BlockCall("set_tier4_enabled", [enabled |-> enabled], 0, <<>>)

\* The two conditions that update_quality tests on the thresholds of the
\* current mode.
ImprovementBranch(snr_db, ber, quality_score) ==
    LET current_thresholds == get_thresholds(rc.d_current_mode)
    IN  /\ snr_db > current_thresholds.snr_max_dB + rc.d_hysteresis_db
        /\ ber < current_thresholds.ber_max
        /\ quality_score > current_thresholds.quality_min

DegradationBranchNoHysteresis(snr_db, ber, quality_score) ==
    LET current_thresholds == get_thresholds(rc.d_current_mode)
    IN  /\ ~ImprovementBranch(snr_db, ber, quality_score)
        /\ \/ snr_db < current_thresholds.snr_min_dB
           \/ ber > current_thresholds.ber_max
           \/ quality_score < current_thresholds.quality_min - 20

DegradationBranch(snr_db, ber, quality_score) ==
    LET current_thresholds == get_thresholds(rc.d_current_mode)
    IN  /\ ~ImprovementBranch(snr_db, ber, quality_score)
        /\ \/ snr_db < current_thresholds.snr_min_dB - rc.d_hysteresis_db
           \/ ber > current_thresholds.ber_max
           \/ quality_score < current_thresholds.quality_min - 20

update_quality(snr_db, ber, quality_score) ==
    /\ last' = BlockCall("update_quality",
                         [snr_db |-> snr_db, ber |-> ber, quality_score |-> quality_score],
                         0, <<>>)
    /\ IF ~rc.d_adaptation_enabled
       THEN UNCHANGED rc
       ELSE LET recommended == recommend_mode(snr_db, ber)
            IN  IF /\ \/ ImprovementBranch(snr_db, ber, quality_score)
                      \/ DegradationBranch(snr_db, ber, quality_score)
                   /\ recommended # rc.d_current_mode
                THEN rc' = [rc EXCEPT !.d_last_snr_db = snr_db,
                                      !.d_last_mode = rc.d_current_mode,
                                      !.d_current_mode = recommended]
                ELSE rc' = [rc EXCEPT !.d_last_snr_db = snr_db]

\* A call of recommend_mode by the block's user.
recommend_mode_call(snr_db, ber) ==
    /\ last' = BlockCall("recommend_mode", [snr_db |-> snr_db, ber |-> ber],
                         recommend_mode(snr_db, ber), <<>>)
    /\ UNCHANGED rc

(***************************************************************************)
(* Modulation negotiation (lib/modulation_negotiation_impl.cc).            *)
(*                                                                         *)
(* A negotiation frame is kept as its KISS command and the fields that its *)
(* payload carries.  Time is counted in ticks of the clock that work       *)
(* reads; neg.elapsed is the time since d_negotiation_start_time.          *)
(***************************************************************************)
KISS_CMD_NEG_REQ == 16
KISS_CMD_NEG_RESP == 17
KISS_CMD_NEG_ACK == 18
KISS_CMD_MODE_CHANGE == 19
KISS_CMD_QUALITY_FB == 20
MaxRequestModes == 8

\* negotiation_timeout_ms of the block under study, in ticks.
NegotiationTimeout == 1

LocalStation == "LOCAL"
Station1 == "PEER1"
Station2 == "PEER2"

Contains(modes, mode) == \E i \in 1..Len(modes) : modes[i] = mode

KissFrame(command, data) == [command |-> command, data |-> data]

encode_negotiation_request(station_id, proposed_mode, supported_modes) ==
    [station_id |-> station_id,
     proposed_mode |-> proposed_mode,
     supported_modes |-> IF Len(supported_modes) > MaxRequestModes
                         THEN SubSeq(supported_modes, 1, MaxRequestModes)
                         ELSE supported_modes]

encode_negotiation_response(station_id, accepted, negotiated_mode) ==
    [station_id |-> station_id, accepted |-> accepted, negotiated_mode |-> negotiated_mode]

encode_mode_change(station_id, new_mode) ==
    [station_id |-> station_id, new_mode |-> new_mode]

\* A payload too short for its decoder.
Truncated == [truncated |-> TRUE]

\* decode_negotiation_request, decode_negotiation_response,
\* decode_mode_change: whether the payload decodes.
decodes(data) == data # Truncated

\* modulation_negotiation_impl::modulation_negotiation_impl
modulation_negotiation_impl(station_id, supported_modes, negotiation_timeout_ms) ==
    [d_station_id |-> station_id,
     d_supported_modes |-> supported_modes,
     d_negotiation_timeout_ms |-> negotiation_timeout_ms,
     d_negotiating |-> FALSE,
     d_remote_station_id |-> "",
     d_negotiated_mode |-> IF Len(supported_modes) > 0 THEN supported_modes[1] ELSE MODE_4FSK,
     d_pending_mode |-> IF Len(supported_modes) > 0 THEN supported_modes[1] ELSE MODE_4FSK,
     elapsed |-> 0,
     d_negotiated_modes |-> <<>>,
     d_send_kiss_frame_callback |-> FALSE,
     d_auto_negotiation_enabled |-> FALSE,
     d_rate_control |-> FALSE,
     d_last_monitored_mode |-> MODE_4FSK]

\* std::map operator[] assignment
MapPut(map, key, value) ==
    [k \in DOMAIN map \cup {key} |-> IF k = key THEN value ELSE map[k]]

send_kiss_frame_twice(command, data) ==
    IF neg.d_send_kiss_frame_callback
    THEN <<KissFrame(command, data), KissFrame(command, data)>>
    ELSE <<>>

\* send_kiss_frame: the frames given to the installed sender.
send_kiss_frame(command, data) ==
    IF neg.d_send_kiss_frame_callback THEN <<KissFrame(command, data)>> ELSE <<>>

mode_supported_never(mode) == FALSE

\* std::find(d_supported_modes.begin(), d_supported_modes.end(), mode) != end
mode_supported(mode) == Contains(neg.d_supported_modes, mode)

common_mode_last(remote_supported_modes) ==
    LET found == {i \in 1..Len(remote_supported_modes) :
                     mode_supported(remote_supported_modes[i])}
    IN  IF found = {} THEN neg.d_negotiated_mode
        ELSE remote_supported_modes[CHOOSE i \in found : \A j \in found : j <= i]

\* The loop of the NEG_REQ handler that looks for a common mode.
common_mode(remote_supported_modes) ==
    LET found == {i \in 1..Len(remote_supported_modes) :
                     mode_supported(remote_supported_modes[i])}
    IN  IF found = {} THEN neg.d_negotiated_mode
        ELSE remote_supported_modes[Min(found)]

\* The mode that initiate_negotiation proposes.
proposed_or_negotiated(proposed_mode) ==
    IF mode_supported(proposed_mode) THEN proposed_mode ELSE neg.d_negotiated_mode

\* The members after the body of initiate_negotiation, run on members n.
Initiated(n, remote_station_id, proposed_mode) ==
    [n EXCEPT !.d_remote_station_id = remote_station_id,
              !.d_pending_mode = proposed_or_negotiated(proposed_mode),
              !.d_negotiating = TRUE,
              !.elapsed = 0]

\* The NEG_REQ frame that initiate_negotiation sends.
InitiatedFrames(proposed_mode) ==
    send_kiss_frame(KISS_CMD_NEG_REQ,
                    encode_negotiation_request(neg.d_station_id,
                                               proposed_or_negotiated(proposed_mode),
                                               neg.d_supported_modes))

initiate_negotiation(remote_station_id, proposed_mode) ==
    /\ d_mutex = "none"
    /\ neg' = Initiated(neg, remote_station_id, proposed_mode)
    /\ last' = BlockCall("initiate_negotiation",
                         [remote_station_id |-> remote_station_id,
                          proposed_mode |-> proposed_mode],
                         0, InitiatedFrames(proposed_mode))
    /\ UNCHANGED d_mutex

\* handle_negotiation_frame, case KISS_CMD_NEG_REQ
handle_neg_req(data) ==
    LET remote_id == data.station_id
        chosen == IF mode_supported(data.proposed_mode)
                  THEN data.proposed_mode
                  ELSE common_mode(data.supported_modes)
    IN  /\ neg' = [neg EXCEPT !.d_negotiated_mode = chosen,
                              !.d_negotiated_modes = MapPut(@, remote_id, chosen)]
        /\ last' = BlockCall("handle_negotiation_frame",
                             KissFrame(KISS_CMD_NEG_REQ, data), 0,
                             send_kiss_frame(KISS_CMD_NEG_RESP,
                                 encode_negotiation_response(neg.d_station_id, TRUE, chosen)))

\* handle_negotiation_frame, case KISS_CMD_NEG_RESP
handle_neg_resp(data) ==
    LET remote_id == data.station_id
    IN  IF data.accepted
        THEN /\ neg' = [neg EXCEPT !.d_negotiated_mode = data.negotiated_mode,
                                   !.d_negotiated_modes =
                                       MapPut(@, remote_id, data.negotiated_mode),
                                   !.d_negotiating = FALSE]
             /\ last' = BlockCall("handle_negotiation_frame",
                                  KissFrame(KISS_CMD_NEG_RESP, data), 0,
                                  send_kiss_frame(KISS_CMD_NEG_ACK,
                                      encode_mode_change(neg.d_station_id,
                                                         data.negotiated_mode)))
        ELSE /\ neg' = [neg EXCEPT !.d_negotiating = FALSE,
                                   !.d_pending_mode = neg.d_negotiated_mode]
             /\ last' = BlockCall("handle_negotiation_frame",
                                  KissFrame(KISS_CMD_NEG_RESP, data), 0, <<>>)

\* handle_negotiation_frame, case KISS_CMD_MODE_CHANGE
handle_mode_change(data) ==
    /\ neg' = [neg EXCEPT !.d_negotiated_modes = MapPut(@, data.station_id, data.new_mode)]
    /\ last' = BlockCall("handle_negotiation_frame",
                         KissFrame(KISS_CMD_MODE_CHANGE, data), 0, <<>>)

handle_negotiation_frame(command, data) ==
    /\ d_mutex = "none"
    /\ UNCHANGED d_mutex
    /\ IF decodes(data) /\ command = KISS_CMD_NEG_REQ THEN handle_neg_req(data)
       ELSE IF decodes(data) /\ command = KISS_CMD_NEG_RESP THEN handle_neg_resp(data)
       ELSE IF decodes(data) /\ command = KISS_CMD_MODE_CHANGE THEN handle_mode_change(data)
       ELSE \* a payload that does not decode, quality feedback, any other command
            /\ last' = BlockCall("handle_negotiation_frame", KissFrame(command, data),
                                 0, <<>>)
            /\ UNCHANGED neg

set_kiss_frame_sender(callback) ==
    /\ d_mutex = "none"
    /\ neg' = [neg EXCEPT !.d_send_kiss_frame_callback = callback]
    /\ last' = BlockCall("set_kiss_frame_sender", [callback |-> callback], 0, <<>>)
    /\ UNCHANGED d_mutex

\* rate_control: whether a rate control block is given (else nullptr).
set_auto_negotiation_enabled(enabled, rate_control) ==
    /\ d_mutex = "none"
    /\ neg' = [neg EXCEPT !.d_auto_negotiation_enabled = enabled,
                          !.d_rate_control = rate_control,
                          !.d_last_monitored_mode =
                              IF rate_control THEN get_modulation_mode ELSE @]
    /\ last' = BlockCall("set_auto_negotiation_enabled",
                         [enabled |-> enabled, rate_control |-> rate_control], 0, <<>>)
    /\ UNCHANGED d_mutex

\* The timeout test of work, on the members.
TimedOut == neg.d_negotiating /\ neg.elapsed > neg.d_negotiation_timeout_ms

AfterTimeout ==
    IF TimedOut
    THEN [neg EXCEPT !.d_negotiating = FALSE, !.d_pending_mode = neg.d_negotiated_mode]
    ELSE neg

\* Whether work goes on to check_mode_change, and whether that finds a change.
ChecksModeChange ==
    /\ neg.d_auto_negotiation_enabled
    /\ neg.d_rate_control
    /\ ~AfterTimeout.d_negotiating

FindsModeChange == ChecksModeChange /\ get_modulation_mode # neg.d_last_monitored_mode

RECURSIVE Repeat(_, _)
Repeat(frames, n) == IF n = 0 THEN <<>> ELSE frames \o Repeat(frames, n - 1)

\* check_mode_change: the MODE_CHANGE frames, one for each entry of
\* d_negotiated_modes.
ModeChangeFrames ==
    Repeat(send_kiss_frame(KISS_CMD_MODE_CHANGE,
                           encode_mode_change(neg.d_station_id, get_modulation_mode)),
           Cardinality(DOMAIN neg.d_negotiated_modes))

\* work, with the check_mode_change it calls.  work holds d_mutex (a
\* std::mutex) from its line 81 on; when check_mode_change goes on to
\* initiate_negotiation, that function locks d_mutex again on the same
\* thread.  Locking a std::mutex the thread already owns is undefined: the
\* thread blocks for ever with the mutex held, or the lock is granted and the
\* body of initiate_negotiation runs.
work ==
    /\ d_mutex = "none"
    /\ IF ~FindsModeChange
       THEN /\ neg' = AfterTimeout
            /\ last' = BlockCall("work", [timed_out |-> TimedOut], 0, <<>>)
            /\ UNCHANGED d_mutex
       ELSE LET checked == [AfterTimeout EXCEPT !.d_last_monitored_mode = get_modulation_mode]
            IN  IF neg.d_remote_station_id = ""
                THEN /\ neg' = checked
                     /\ last' = BlockCall("work", [timed_out |-> TimedOut], 0,
                                          ModeChangeFrames)
                     /\ UNCHANGED d_mutex
                ELSE \/ /\ neg' = checked
                        /\ last' = BlockCall("work", [timed_out |-> TimedOut],
                                             -1, ModeChangeFrames)
                        /\ d_mutex' = "work"
                     \/ /\ neg' = Initiated(checked, neg.d_remote_station_id,
                                            get_modulation_mode)
                        /\ last' = BlockCall("work", [timed_out |-> TimedOut], 0,
                                             ModeChangeFrames
                                                 \o InitiatedFrames(get_modulation_mode))
                        /\ UNCHANGED d_mutex

\* One tick passes while a negotiation is in progress.
TimePasses ==
    /\ neg.d_negotiating
    /\ neg.elapsed <= neg.d_negotiation_timeout_ms
    /\ neg' = [neg EXCEPT !.elapsed = @ + 1]
    /\ last' = BlockCall("tick", <<>>, 0, <<>>)
    /\ UNCHANGED d_mutex

(***************************************************************************)
(* The negotiation block with the calls it makes while it runs as steps.   *)
(* A call of the block runs, holding d_mutex, up to the point where        *)
(* send_kiss_frame invokes the installed sender (in work: where            *)
(* check_mode_change calls the rate control block); the sender may call    *)
(* back into the block; then it returns and the call of the block          *)
(* finishes.  Here d_mutex names the function whose lock_guard holds the   *)
(* mutex, and last is the call that is running.                            *)
(***************************************************************************)
\* In send_kiss_frame, called by function from with the frames for the
\* sender; then holds the members as they are when from returns.
InSender(from, frames, then) ==
    BlockCall("send_kiss_frame", [from |-> from, then |-> then], 0, frames)
\* d_send_kiss_frame_callback(command, data) is running.
SenderRunning == last.fn = "send_kiss_frame" /\ last.sent # <<>>

\* The outcome of a call that locks d_mutex.
Blocked == [blocked |-> TRUE]
Returned(value) == [blocked |-> FALSE, value |-> value]

\* initiate_negotiation up to its send_kiss_frame.
initiate_negotiation_sends(remote_station_id, proposed_mode) ==
    /\ d_mutex = "none"
    /\ d_mutex' = "initiate_negotiation"
    /\ neg' = Initiated(neg, remote_station_id, proposed_mode)
    /\ last' = InSender("initiate_negotiation", InitiatedFrames(proposed_mode),
                        Initiated(neg, remote_station_id, proposed_mode))

\* handle_negotiation_frame up to its send_kiss_frame: a NEG_REQ that
\* decodes, or an accepted NEG_RESP.  In the branch of the NEG_REQ handler
\* that looks for a common mode the members are set after the frame is sent.
handle_negotiation_frame_sends(command, data) ==
    /\ d_mutex = "none"
    /\ d_mutex' = "handle_negotiation_frame"
    /\ IF command = KISS_CMD_NEG_REQ
       THEN LET chosen == IF mode_supported(data.proposed_mode)
                          THEN data.proposed_mode
                          ELSE common_mode(data.supported_modes)
                after == [neg EXCEPT !.d_negotiated_mode = chosen,
                                     !.d_negotiated_modes = MapPut(@, data.station_id, chosen)]
            IN  /\ neg' = IF mode_supported(data.proposed_mode) THEN after ELSE neg
                /\ last' = InSender("handle_negotiation_frame",
                               send_kiss_frame(KISS_CMD_NEG_RESP,
                                   encode_negotiation_response(neg.d_station_id, TRUE, chosen)),
                               after)
       ELSE LET after == [neg EXCEPT !.d_negotiated_mode = data.negotiated_mode,
                                     !.d_negotiated_modes =
                                         MapPut(@, data.station_id, data.negotiated_mode),
                                     !.d_negotiating = FALSE]
            IN  /\ command = KISS_CMD_NEG_RESP
                /\ data.accepted
                /\ neg' = after
                /\ last' = InSender("handle_negotiation_frame",
                               send_kiss_frame(KISS_CMD_NEG_ACK,
                                   encode_mode_change(neg.d_station_id, data.negotiated_mode)),
                               after)

\* work, when it goes on to check_mode_change, up to the call of
\* d_rate_control->get_modulation_mode().
work_checks_mode ==
    /\ d_mutex = "none"
    /\ ChecksModeChange
    /\ d_mutex' = "work"
    /\ neg' = AfterTimeout
    /\ last' = BlockCall("get_modulation_mode", [from |-> "check_mode_change"],
                         get_modulation_mode, <<>>)

\* A function returns to its caller outside the block: its lock_guard
\* releases d_mutex.
returns(fn, members, sent) ==
    /\ neg' = members
    /\ d_mutex' = "none"
    /\ last' = BlockCall(fn, <<>>, 0, sent)

\* check_mode_change, after its MODE_CHANGE frames: with a remote station it
\* calls initiate_negotiation, whose lock_guard locks the std::mutex that
\* work holds on this thread.  That is undefined: the thread blocks for
\* ever, or the lock is granted and initiate_negotiation runs up to its
\* send_kiss_frame.
check_mode_change_initiates(members, current_mode) ==
    IF members.d_remote_station_id = ""
    THEN returns("work", members, <<>>)
    ELSE \/ /\ neg' = members
            /\ last' = BlockCall("initiate_negotiation", [from |-> "check_mode_change"],
                                 Blocked, <<>>)
            /\ UNCHANGED d_mutex
         \/ /\ neg' = Initiated(members, members.d_remote_station_id, current_mode)
            /\ last' = InSender("work", InitiatedFrames(current_mode),
                                Initiated(members, members.d_remote_station_id, current_mode))
            /\ UNCHANGED d_mutex

\* check_mode_change from the return of get_modulation_mode up to its first
\* send_kiss_frame (the loop over d_negotiated_modes sends one frame for each
\* entry), or to its return.
check_mode_change_sends ==
    /\ last.fn = "get_modulation_mode"
    /\ d_mutex = "work"
    /\ LET current_mode == last.ret
           checked == [neg EXCEPT !.d_last_monitored_mode = current_mode]
       IN  IF current_mode = neg.d_last_monitored_mode
           THEN returns("work", neg, <<>>)
           ELSE IF ModeChangeFrames # <<>>
           THEN /\ neg' = checked
                /\ last' = InSender("check_mode_change", ModeChangeFrames, checked)
                /\ UNCHANGED d_mutex
           ELSE check_mode_change_initiates(checked, current_mode)

\* The sender, while it runs, calls get_negotiated_mode() or is_negotiating()
\* on the block.  Both lock d_mutex: when the thread already holds it the
\* behaviour is undefined, the call blocks for ever or goes on.
sender_calls(fn) ==
    /\ SenderRunning
    /\ LET value == IF fn = "get_negotiated_mode" THEN neg.d_negotiated_mode
                    ELSE neg.d_negotiating
       IN  IF d_mutex = "none"
           THEN last' = BlockCall(fn, last.args, Returned(value), last.sent)
           ELSE \/ last' = BlockCall(fn, last.args, Blocked, last.sent)
                \/ last' = BlockCall(fn, last.args, Returned(value), last.sent)
    /\ UNCHANGED <<neg, d_mutex>>

\* send_kiss_frame returns (the sender has returned, or none is installed)
\* and the function that called it goes on to its end.
send_kiss_frame_returns ==
    /\ \/ last.fn = "send_kiss_frame"
       \/ last.fn \in {"get_negotiated_mode", "is_negotiating"} /\ ~last.ret.blocked
    /\ IF last.args.from = "check_mode_change"
       THEN check_mode_change_initiates(neg, get_modulation_mode)
       ELSE returns(last.args.from, last.args.then, last.sent)

(***************************************************************************)
(* The Reed-Solomon codec of the FEC blocks                                *)
(* (include/gnuradio/packet_protocols/common.h): GaloisField256 with its   *)
(* log and antilog tables, ReedSolomonEncoder and ReedSolomonDecoder.      *)
(* Octet vectors are functions on 0..size-1, as the code indexes them.     *)
(***************************************************************************)
GF_SIZE == 256
PRIMITIVE_POLY == 285
CodeLength == 255

\* The C operators a ^ b and a & b on non-negative integers.
RECURSIVE BitXor(_, _)
BitXor(a, b) ==
    IF a = 0 THEN b
    ELSE IF b = 0 THEN a
    ELSE ((a + b) % 2) + 2 * BitXor(a \div 2, b \div 2)
RECURSIVE BitAnd(_, _)
BitAnd(a, b) ==
    IF a = 0 \/ b = 0 THEN 0
    ELSE ((a % 2) * (b % 2)) + 2 * BitAnd(a \div 2, b \div 2)

size(v) == Cardinality(DOMAIN v)
Octets == 0..255
\* std::vector<uint8_t>(n, 0)
Zeros(n) == [i \in 0..(n - 1) |-> 0]
\* v.resize(n): cut, or filled up with 0.
resize(v, n) == [i \in 0..(n - 1) |-> IF i \in DOMAIN v THEN v[i] ELSE 0]

\* The pointer members of a FEC block before initialize_reed_solomon.
nullptr == [d_n |-> 0]
NoFecBlock ==
    /\ d_reed_solomon_encoder = nullptr
    /\ d_reed_solomon_decoder = nullptr

\* The octets found in storage that was never written (the member arrays of
\* GaloisField256 have no initializer): every octet of the object holds the
\* same one of these values.
IndeterminateOctets == {0, 249, 255}

\* The for statements of the codec are operators xxx_loop(.., lo, hi, s), the
\* value of s after the steps lo..hi of the loop taken in their order: the
\* range is halved down to single steps (Halfway), and the comparison of the
\* lower half's value with itself has it evaluated before the upper half is
\* entered.
Halfway(lo, hi) == (lo + hi) \div 2

\* The loop of GaloisField256::initialize. sr is a uint8_t: the shifted value
\* is stored in 8 bits before bit 8 is tested.
RECURSIVE initialize_loop(_, _, _)
initialize_loop(lo, hi, s) ==
    IF lo > hi THEN s
    ELSE IF lo = hi
    THEN LET shifted == (s.sr * 2) % 256
             reduced == IF BitAnd(shifted, 256) # 0
                        THEN BitXor(shifted, PRIMITIVE_POLY) % 256
                        ELSE shifted
         IN  [sr |-> BitAnd(reduced, 255),
              d_alpha_to |-> [s.d_alpha_to EXCEPT ![lo] = s.sr],
              d_index_of |-> [s.d_index_of EXCEPT ![s.sr] = lo]]
    ELSE LET lower == initialize_loop(lo, Halfway(lo, hi), s)
         IN  IF lower = lower THEN initialize_loop(Halfway(lo, hi) + 1, hi, lower)
             ELSE lower

\* GaloisField256::initialize on tables that hold the octet `was`.
initialize(was) ==
    LET built == initialize_loop(0, 254,
                     [sr |-> 1,
                      d_alpha_to |-> [i \in 0..(GF_SIZE - 1) |->
                                         IF i = 255 THEN 0 ELSE was],
                      d_index_of |-> [i \in 0..(GF_SIZE - 1) |->
                                         IF i = 0 THEN 255 ELSE was]])
    IN  [d_alpha_to |-> built.d_alpha_to, d_index_of |-> built.d_index_of]

\* GaloisField256::GaloisField256() on storage that holds the octet `was`.
GaloisField256(was) == initialize(was)

multiply(gf, a, b) ==
    IF a = 0 \/ b = 0 THEN 0
    ELSE LET sum == gf.d_index_of[a] + gf.d_index_of[b]
         IN  gf.d_alpha_to[IF sum >= 255 THEN sum - 255 ELSE sum]

divide(gf, a, b) ==
    IF a = 0 THEN 0
    ELSE IF b = 0 THEN 0
    ELSE LET diff == gf.d_index_of[a] - gf.d_index_of[b]
         IN  gf.d_alpha_to[IF diff < 0 THEN diff + 255 ELSE diff]

power(gf, a, n) ==
    IF a = 0 THEN 0
    ELSE IF n = 0 THEN 1
    ELSE gf.d_alpha_to[(gf.d_index_of[a] * n) % 255]

add(a, b) == BitXor(a, b)

\* ReedSolomonEncoder::build_generator_poly: the loop that subtracts
\* alpha^i * temp, and the loop over i.
RECURSIVE generator_subtract_loop(_, _, _, _, _, _)
generator_subtract_loop(gf, temp, alpha_i, lo, hi, poly) ==
    IF lo > hi THEN poly
    ELSE IF lo = hi
    THEN [poly EXCEPT ![lo] = add(@, multiply(gf, temp[lo], alpha_i))]
    ELSE LET lower == generator_subtract_loop(gf, temp, alpha_i, lo, Halfway(lo, hi), poly)
         IN  IF lower = lower
             THEN generator_subtract_loop(gf, temp, alpha_i, Halfway(lo, hi) + 1, hi, lower)
             ELSE lower

RECURSIVE generator_loop(_, _, _, _, _)
generator_loop(gf, d_t, lo, hi, poly) ==
    IF lo > hi THEN poly
    ELSE IF lo = hi
    THEN generator_subtract_loop(gf, poly, power(gf, 2, lo), 0, 2 * d_t - 1,
             [j \in 0..(2 * d_t) |-> IF j = 0 THEN 0 ELSE poly[j - 1]])
    ELSE LET lower == generator_loop(gf, d_t, lo, Halfway(lo, hi), poly)
         IN  IF lower = lower
             THEN generator_loop(gf, d_t, Halfway(lo, hi) + 1, hi, lower)
             ELSE lower

build_generator_poly(gf, d_t) ==
    generator_loop(gf, d_t, 1, 2 * d_t, [j \in 0..(2 * d_t) |-> IF j = 0 THEN 1 ELSE 0])

\* new ReedSolomonEncoder(n, k) on storage that holds the octet `was`.
ReedSolomonEncoder(n, k, was) ==
    LET d_t == IF n # 255 THEN (255 - k) \div 2 ELSE (n - k) \div 2
        gf == GaloisField256(was)
    IN  [d_n |-> 255, d_k |-> k, d_t |-> d_t, d_gf |-> gf,
         d_generator_poly |-> build_generator_poly(gf, d_t)]

\* The polynomial division of ReedSolomonEncoder::encode: the loop over j
\* for one i with its coef, and the loop over i.
RECURSIVE encode_subtract_loop(_, _, _, _, _, _)
encode_subtract_loop(enc, i, coef, lo, hi, msg_poly) ==
    IF lo > hi THEN msg_poly
    ELSE IF lo = hi
    THEN IF enc.d_generator_poly[lo] # 0
         THEN [msg_poly EXCEPT ![i + lo] =
                  add(@, multiply(enc.d_gf, coef, enc.d_generator_poly[lo]))]
         ELSE msg_poly
    ELSE LET lower == encode_subtract_loop(enc, i, coef, lo, Halfway(lo, hi), msg_poly)
         IN  IF lower = lower
             THEN encode_subtract_loop(enc, i, coef, Halfway(lo, hi) + 1, hi, lower)
             ELSE lower

RECURSIVE encode_divide_loop(_, _, _, _)
encode_divide_loop(enc, lo, hi, msg_poly) ==
    IF lo > hi THEN msg_poly
    ELSE IF lo = hi
    THEN IF msg_poly[lo] # 0
         THEN encode_subtract_loop(enc, lo, msg_poly[lo], 0, 2 * enc.d_t, msg_poly)
         ELSE msg_poly
    ELSE LET lower == encode_divide_loop(enc, lo, Halfway(lo, hi), msg_poly)
         IN  IF lower = lower
             THEN encode_divide_loop(enc, Halfway(lo, hi) + 1, hi, lower)
             ELSE lower

\* ReedSolomonEncoder::encode
encode(enc, data) ==
    LET data_len == IF size(data) < enc.d_k THEN size(data) ELSE enc.d_k
        message == [i \in 0..(enc.d_k - 1) |-> IF i < data_len THEN data[i] ELSE 0]
        msg_poly == encode_divide_loop(enc, 0, enc.d_k - 1,
                                       resize(message, enc.d_k + 2 * enc.d_t))
    IN  [i \in 0..(enc.d_n - 1) |->
            IF i < enc.d_k THEN message[i]
            ELSE IF i < enc.d_k + 2 * enc.d_t THEN msg_poly[i] ELSE 0]

\* new ReedSolomonDecoder(n, k) on storage that holds the octet `was`.
ReedSolomonDecoder(n, k, was) ==
    [d_n |-> 255, d_k |-> k,
     d_t |-> IF n # 255 THEN (255 - k) \div 2 ELSE (n - k) \div 2,
     d_gf |-> GaloisField256(was)]

\* The sum over j of coef[j] * x^(j - shift), taken for the j of lo..hi whose
\* coefficient is not 0: the evaluation loops of calculate_syndromes (shift
\* 0), chien_search (shift 0) and forney_algorithm (shift 0 for the
\* numerator; shift 1 and the odd j only for the denominator).
RECURSIVE evaluate_loop(_, _, _, _, _, _, _, _)
evaluate_loop(gf, coef, x, shift, odd_only, lo, hi, sum) ==
    IF lo > hi THEN sum
    ELSE IF lo = hi
    THEN IF coef[lo] # 0 /\ (odd_only => lo % 2 = 1)
         THEN add(sum, multiply(gf, coef[lo], power(gf, x, lo - shift)))
         ELSE sum
    ELSE LET lower == evaluate_loop(gf, coef, x, shift, odd_only, lo, Halfway(lo, hi), sum)
         IN  IF lower = lower
             THEN evaluate_loop(gf, coef, x, shift, odd_only, Halfway(lo, hi) + 1, hi, lower)
             ELSE lower

\* ReedSolomonDecoder::calculate_syndromes
calculate_syndromes(dec, received) ==
    [i \in 0..(2 * dec.d_t - 1) |->
        evaluate_loop(dec.d_gf, received, power(dec.d_gf, 2, i + 1), 0, FALSE, 0,
                      (IF dec.d_n < size(received) THEN dec.d_n ELSE size(received)) - 1,
                      0)]
has_errors(syndromes) == \E i \in DOMAIN syndromes : syndromes[i] # 0

\* The sum over i of lo..hi of lambda[i] * syndromes[n - i], added to sum: the
\* discrepancy of berlekamp_massey and Omega of forney_algorithm.
RECURSIVE convolve_loop(_, _, _, _, _, _, _)
convolve_loop(gf, lambda, syndromes, n, lo, hi, sum) ==
    IF lo > hi THEN sum
    ELSE IF lo = hi
    THEN add(sum, multiply(gf, lambda[lo], syndromes[n - lo]))
    ELSE LET lower == convolve_loop(gf, lambda, syndromes, n, lo, Halfway(lo, hi), sum)
         IN  IF lower = lower
             THEN convolve_loop(gf, lambda, syndromes, n, Halfway(lo, hi) + 1, hi, lower)
             ELSE lower

\* The loop of berlekamp_massey that adds d * inv_b * B, shifted by m, to C.
RECURSIVE locator_update_loop(_, _, _, _, _, _, _, _)
locator_update_loop(gf, B, d, inv_b, m, lo, hi, C) ==
    IF lo > hi THEN C
    ELSE IF lo = hi
    THEN IF B[lo] # 0
         THEN [C EXCEPT ![lo + m] = add(@, multiply(gf, d, multiply(gf, inv_b, B[lo])))]
         ELSE C
    ELSE LET lower == locator_update_loop(gf, B, d, inv_b, m, lo, Halfway(lo, hi), C)
         IN  IF lower = lower
             THEN locator_update_loop(gf, B, d, inv_b, m, Halfway(lo, hi) + 1, hi, lower)
             ELSE lower

\* The loop over n of ReedSolomonDecoder::berlekamp_massey.
RECURSIVE berlekamp_massey_loop(_, _, _, _, _)
berlekamp_massey_loop(dec, syndromes, lo, hi, s) ==
    IF lo > hi THEN s
    ELSE IF lo = hi
    THEN LET d == convolve_loop(dec.d_gf, s.C, syndromes, lo, 1, s.L, syndromes[lo])
             C == locator_update_loop(dec.d_gf, s.B, d, divide(dec.d_gf, 1, s.b), s.m,
                                      0, 2 * dec.d_t - s.m, s.C)
         IN  IF d = 0 THEN [s EXCEPT !.m = @ + 1]
             ELSE IF 2 * s.L <= lo
                  THEN [C |-> C, B |-> s.C, L |-> lo + 1 - s.L, m |-> 1, b |-> d]
                  ELSE [s EXCEPT !.C = C, !.m = @ + 1]
    ELSE LET lower == berlekamp_massey_loop(dec, syndromes, lo, Halfway(lo, hi), s)
         IN  IF lower = lower
             THEN berlekamp_massey_loop(dec, syndromes, Halfway(lo, hi) + 1, hi, lower)
             ELSE lower

\* ReedSolomonDecoder::berlekamp_massey: returns lambda (C) and L.
berlekamp_massey(dec, syndromes) ==
    LET one == [i \in 0..(2 * dec.d_t) |-> IF i = 0 THEN 1 ELSE 0]
    IN  berlekamp_massey_loop(dec, syndromes, 0, 2 * dec.d_t - 1,
            [C |-> one, B |-> one, L |-> 0, m |-> 1, b |-> 1])

\* The loop over i of ReedSolomonDecoder::chien_search.
RECURSIVE chien_search_loop(_, _, _, _, _, _)
chien_search_loop(dec, lambda, L, lo, hi, error_positions) ==
    IF lo > hi THEN error_positions
    ELSE IF lo = hi
    THEN IF evaluate_loop(dec.d_gf, lambda, power(dec.d_gf, 2, 255 - lo), 0, FALSE, 1,
                          IF L < size(lambda) - 1 THEN L ELSE size(lambda) - 1,
                          lambda[0]) = 0
         THEN Append(error_positions, dec.d_n - 1 - lo)
         ELSE error_positions
    ELSE LET lower == chien_search_loop(dec, lambda, L, lo, Halfway(lo, hi), error_positions)
         IN  IF lower = lower
             THEN chien_search_loop(dec, lambda, L, Halfway(lo, hi) + 1, hi, lower)
             ELSE lower

chien_search(dec, lambda, L) == chien_search_loop(dec, lambda, L, 0, dec.d_n - 1, <<>>)

\* ReedSolomonDecoder::forney_algorithm: the error values, one for each of
\* error_positions.
forney_algorithm(dec, syndromes, lambda, error_positions) ==
    LET omega == [i \in 0..(2 * dec.d_t - 1) |->
                     convolve_loop(dec.d_gf, lambda, syndromes, i, 1,
                                   IF i < size(lambda) - 1 THEN i ELSE size(lambda) - 1,
                                   syndromes[i])]
    IN  [i \in DOMAIN error_positions |->
            LET pos == error_positions[i]
                alpha_inv == power(dec.d_gf, 2, 255 - (dec.d_n - 1 - pos))
                numerator == evaluate_loop(dec.d_gf, omega, alpha_inv, 0, FALSE,
                                           0, 2 * dec.d_t - 1, 0)
                denominator == evaluate_loop(dec.d_gf, lambda, alpha_inv, 1, TRUE,
                                             1, size(lambda) - 1, 0)
            IN  IF denominator # 0 THEN divide(dec.d_gf, numerator, denominator) ELSE 0]

\* The loop of ReedSolomonDecoder::decode that corrects the errors.
RECURSIVE correct_loop(_, _, _, _, _, _)
correct_loop(dec, error_positions, error_values, lo, hi, result) ==
    IF lo > hi THEN result
    ELSE IF lo = hi
    THEN IF error_positions[lo] >= 0 /\ error_positions[lo] < dec.d_n
         THEN [result EXCEPT ![error_positions[lo]] = add(@, error_values[lo])]
         ELSE result
    ELSE LET lower == correct_loop(dec, error_positions, error_values, lo,
                                   Halfway(lo, hi), result)
         IN  IF lower = lower
             THEN correct_loop(dec, error_positions, error_values,
                               Halfway(lo, hi) + 1, hi, lower)
             ELSE lower

\* The run of ReedSolomonDecoder::decode on `data`: the return statement it
\* leaves by, and the vector it returns.
decode_run(dec, data) ==
    LET result == IF size(data) < dec.d_n THEN resize(data, dec.d_n) ELSE data
        syndromes == calculate_syndromes(dec, result)
        bm == berlekamp_massey(dec, syndromes)
        error_positions == chien_search(dec, bm.C, bm.L)
        error_values == forney_algorithm(dec, syndromes, bm.C, error_positions)
    IN  IF ~has_errors(syndromes)
        THEN [left_at |-> "no errors", result |-> resize(result, dec.d_k)]
        ELSE IF bm.L < 0 \/ bm.L > dec.d_t
        THEN [left_at |-> "too many errors", result |-> resize(result, dec.d_k)]
        ELSE IF Len(error_positions) # bm.L
        THEN [left_at |-> "error count mismatch", result |-> resize(result, dec.d_k)]
        ELSE [left_at |-> "corrected",
              result |-> resize(correct_loop(dec, error_positions, error_values, 1,
                                             Len(error_positions), result),
                                dec.d_k)]

\* ReedSolomonDecoder::decode
decode(dec, data) == decode_run(dec, data).result

(***************************************************************************)
(* The frame codec of lib/ax25_protocol.c: addresses and frames as the     *)
(* octets that go on the air, the frame check sequence and bit stuffing.   *)
(* An octet string is a sequence: data[i] of the code is data[i + 1].      *)
(***************************************************************************)
AX25_FCS_POLY == 4129
AX25_MAX_ADDRS == 10

\* a | b
BitOr(a, b) == (a + b) - BitAnd(a, b)

\* calculate_fcs_internal: the loop over j for one octet, and the loop over
\* the octets lo..hi.
RECURSIVE fcs_bit_loop(_, _)
fcs_bit_loop(fcs, j) ==
    IF j >= 8 THEN fcs
    ELSE fcs_bit_loop(IF BitAnd(fcs, 1) # 0
                      THEN BitXor(fcs \div 2, AX25_FCS_POLY)
                      ELSE fcs \div 2,
                      j + 1)

RECURSIVE fcs_octet_loop(_, _, _, _)
fcs_octet_loop(data, lo, hi, fcs) ==
    IF lo > hi THEN fcs
    ELSE IF lo = hi THEN fcs_bit_loop(BitXor(fcs, data[lo + 1]), 0)
    ELSE LET lower == fcs_octet_loop(data, lo, Halfway(lo, hi), fcs)
         IN  IF lower = lower
             THEN fcs_octet_loop(data, Halfway(lo, hi) + 1, hi, lower)
             ELSE lower

\* A check sequence that depends on the number of octets only.
octet_count(data, length) == length % 65536

calculate_fcs_internal(data, length) ==
    BitXor(fcs_octet_loop(data, 0, length - 1, 65535), 65535)

ax25_calculate_fcs(data, length) == calculate_fcs_internal(data, length)

ax25_check_fcs(data, length, fcs) ==
    IF length < 2 THEN FALSE
    ELSE calculate_fcs_internal(data, length - 2) = fcs

\* An address as ax25_address_t holds it: the six callsign octets, the SSID
\* octet and the two flags.  A callsign is given as its character codes.
ZeroAddress ==
    [callsign |-> <<0, 0, 0, 0, 0, 0>>, ssid |-> 0, command |-> FALSE,
     has_been_repeated |-> FALSE]

toupper(c) == IF c >= 97 /\ c <= 122 THEN c - 32 ELSE c

\* ax25_set_address, with the callsign field as octets.
ax25_set_address_octets(callsign, ssid, command) ==
    [callsign |-> [i \in 1..6 |->
                      IF i <= Len(callsign) THEN (toupper(callsign[i]) * 2) % 256
                      ELSE 32],
     ssid |-> BitOr(BitOr((ssid % 16) * 2, IF command THEN 128 ELSE 0), 1),
     command |-> command,
     has_been_repeated |-> FALSE]

\* ax25_get_address: the loop over the six callsign octets from octet i on;
\* callsign holds the characters written so far.  The loop ends at the first
\* octet that holds a space when shifted right.
RECURSIVE get_address_loop(_, _, _)
get_address_loop(addr, i, callsign) ==
    IF i >= 6 THEN callsign
    ELSE LET c == (addr.callsign[i + 1] \div 2) % 128
         IN  IF c = 32 THEN callsign
             ELSE get_address_loop(addr, i + 1, Append(callsign, c))

\* ax25_get_address(addr, callsign, ssid, command): the C string left in
\* callsign, *ssid and *command.
ax25_get_address(addr) ==
    [ret |-> 0,
     callsign |-> get_address_loop(addr, 0, <<>>),
     ssid |-> (addr.ssid \div 2) % 16,
     command |-> BitAnd(addr.ssid, 128) # 0]

\* ax25_frame_t with its fields as octets; info holds info_length octets.
ZeroOctetFrame ==
    [valid |-> FALSE, num_addresses |-> 0,
     addresses |-> [i \in 1..AX25_MAX_ADDRS |-> ZeroAddress],
     control |-> 0, pid |-> 0, info |-> <<>>, info_length |-> 0, fcs |-> 0]

\* ax25_create_frame for info_len <= AX25_MAX_INFO, followed by the caller's
\* digipeater addresses (as ax25_send_ui_frame appends them).
create_frame_octets(src, dst, digipeaters, control, pid, info) ==
    [ZeroOctetFrame EXCEPT
        !.valid = TRUE,
        !.num_addresses = 2 + Len(digipeaters),
        !.addresses = [i \in 1..AX25_MAX_ADDRS |->
                          IF i = 1 THEN dst
                          ELSE IF i = 2 THEN src
                          ELSE IF i <= 2 + Len(digipeaters) THEN digipeaters[i - 2]
                          ELSE ZeroAddress],
        !.control = control,
        !.pid = pid,
        !.info = info,
        !.info_length = Len(info)]

\* The outcome of a call that fills a buffer: the return value, the octets
\* written and *length on return.
Encoded(ret, data) == [ret |-> ret, data |-> data, length |-> Len(data)]

\* ax25_encode_frame: the address loop from address i on (pos = 7 * i on
\* entry), with its return value where it returns early.
RECURSIVE encode_address_loop(_, _, _, _)
encode_address_loop(frame, capacity, i, data) ==
    IF i >= frame.num_addresses THEN Encoded(0, data)
    ELSE IF Len(data) + 7 > capacity THEN Encoded(-1, data)
    ELSE LET a == frame.addresses[i + 1]
             ssid == IF i = frame.num_addresses - 1 THEN BitOr(a.ssid, 1) ELSE a.ssid
         IN  encode_address_loop(frame, capacity, i + 1,
                                 data \o a.callsign \o <<ssid>>)

\* ax25_encode_frame(frame, data, length) with *length = capacity on entry.
ax25_encode_frame(frame, capacity) ==
    IF ~frame.valid \/ frame.num_addresses < 2 THEN Encoded(-1, <<>>)
    ELSE LET loop == encode_address_loop(frame, capacity, 0, <<>>)
             addrs == loop.data
         IN  IF loop.ret # 0 THEN Encoded(-1, <<>>)
             ELSE IF Len(addrs) >= capacity THEN Encoded(-1, <<>>)
             ELSE LET has_pid == BitAnd(frame.control, 3) = 3
                      with_control == Append(addrs, frame.control)
                  IN  IF has_pid /\ Len(with_control) >= capacity THEN Encoded(-1, <<>>)
                      ELSE LET with_pid == IF has_pid THEN Append(with_control, frame.pid)
                                           ELSE with_control
                           IN  IF frame.info_length > 0
                                  /\ Len(with_pid) + frame.info_length > capacity
                               THEN Encoded(-1, <<>>)
                               ELSE LET body == with_pid \o SubSeq(frame.info, 1, frame.info_length)
                                        fcs == ax25_calculate_fcs(body, Len(body))
                                    IN  IF Len(body) + 2 > capacity THEN Encoded(-1, <<>>)
                                        ELSE Encoded(0, body \o <<fcs % 256, (fcs \div 256) % 256>>)

\* ax25_parse_frame: the address loop.
RECURSIVE parse_address_loop(_, _, _)
parse_address_loop(data, length, s) ==
    IF ~(s.pos < length - 2 /\ s.num_addresses < AX25_MAX_ADDRS) THEN s
    ELSE IF s.pos + 7 > length THEN s
    ELSE LET ssid == data[s.pos + 7]
             addr == [callsign |-> SubSeq(data, s.pos + 1, s.pos + 6),
                      ssid |-> ssid,
                      command |-> BitAnd(ssid, 128) # 0,
                      has_been_repeated |-> BitAnd(ssid, 1) # 0]
             t == [pos |-> s.pos + 7,
                   num_addresses |-> s.num_addresses + 1,
                   addresses |-> [s.addresses EXCEPT ![s.num_addresses + 1] = addr]]
         IN  IF BitAnd(ssid, 1) = 0 THEN t
             ELSE parse_address_loop(data, length, t)

\* ax25_parse_frame(data, length, frame): the return value and *frame on
\* return; was is *frame on entry.
ax25_parse_frame(data, length, was) ==
    IF length < 14 THEN [ret |-> -1, frame |-> was]
    ELSE
    LET a == parse_address_loop(data, length,
                 [pos |-> 0, num_addresses |-> 0, addresses |-> ZeroOctetFrame.addresses])
        f1 == [ZeroOctetFrame EXCEPT !.num_addresses = a.num_addresses,
                                     !.addresses = a.addresses]
    IN  IF a.pos >= length THEN [ret |-> -1, frame |-> f1]
        ELSE
        LET control == data[a.pos + 1]
            has_pid == BitAnd(control, 3) = 3
            f2 == [f1 EXCEPT !.control = control]
        IN  IF has_pid /\ a.pos + 1 >= length THEN [ret |-> -1, frame |-> f2]
            ELSE
            LET pos == IF has_pid THEN a.pos + 2 ELSE a.pos + 1
                f3 == [f2 EXCEPT !.pid = IF has_pid THEN data[a.pos + 2] ELSE 0]
                info_len == IF pos + 2 < length
                            THEN IF length - pos - 2 > AX25_MAX_INFO THEN AX25_MAX_INFO
                                 ELSE length - pos - 2
                            ELSE 0
                f4 == [f3 EXCEPT !.info = SubSeq(data, pos + 1, pos + info_len),
                                 !.info_length = info_len]
                end == pos + info_len
                f5 == IF end + 2 <= length
                      THEN [f4 EXCEPT !.fcs = BitOr(data[end + 1], data[end + 2] * 256)]
                      ELSE f4
            IN  [ret |-> 0, frame |-> [f5 EXCEPT !.valid = TRUE]]

ax25_validate_frame(frame) ==
    IF ~frame.valid THEN -1
    ELSE IF frame.num_addresses < 2 THEN -1
    ELSE IF frame.info_length > AX25_MAX_INFO THEN -1
    ELSE 0

\* Bits are written into a buffer of octets whose content before the call is
\* was in every octet: the octets that hold the bits, the bits that were not
\* written keeping what was there.
BitOf(byte, bit) == (byte \div (2 ^ bit)) % 2
RECURSIVE OctetOfBits(_, _, _, _)
OctetOfBits(bits, k, bit, was) ==
    IF bit >= 8 THEN 0
    ELSE (IF (8 * k) + bit + 1 <= Len(bits) THEN bits[(8 * k) + bit + 1]
          ELSE BitOf(was, bit)) * (2 ^ bit)
         + OctetOfBits(bits, k, bit + 1, was)
OctetsOfBits(bits, was) ==
    [k \in 1..((Len(bits) + 7) \div 8) |-> OctetOfBits(bits, k - 1, 0, was)]

\* ax25_bit_stuff: the two loops, from bit `bit` of input[i] on.  s holds the
\* bits written (out_pos is their number), ones_count and the return value.
RECURSIVE bit_stuff_loop(_, _, _, _, _)
bit_stuff_loop(input, input_len, capacity, t, s) ==
    IF s.ret # 0 THEN s
    ELSE IF ~((t \div 8) < input_len /\ Len(s.out) < capacity) THEN s
    ELSE LET bit_val == BitOf(input[(t \div 8) + 1], t % 8)
             ones_count == IF bit_val = 1 THEN s.ones_count + 1 ELSE 0
             out == Append(s.out, bit_val)
         IN  IF ones_count = 5
             THEN IF Len(out) >= capacity
                  THEN [s EXCEPT !.out = out, !.ones_count = ones_count, !.ret = -1]
                  ELSE bit_stuff_loop(input, input_len, capacity, t + 1,
                           [s EXCEPT !.out = Append(out, 0), !.ones_count = 0])
             ELSE bit_stuff_loop(input, input_len, capacity, t + 1,
                      [s EXCEPT !.out = out, !.ones_count = ones_count])

\* ax25_bit_stuff(input, input_len, output, output_len), *output_len =
\* capacity on entry: the return value, the bits written and *output_len on
\* return (on -1 it stays as it was).
ax25_bit_stuff(input, input_len, capacity) ==
    LET s == bit_stuff_loop(input, input_len, capacity, 0,
                            [out |-> <<>>, ones_count |-> 0, ret |-> 0])
    IN  [ret |-> s.ret, bits |-> s.out,
         output_len |-> IF s.ret = 0 THEN Len(s.out) ELSE capacity]

\* ax25_bit_unstuff: the inner loop over bit, which after five 1-bits
\* increments i and starts again at bit 0 of the octet held in byte; and the
\* outer loop over i, which loads byte.
RECURSIVE bit_unstuff_bit_loop(_, _, _)
bit_unstuff_bit_loop(input_len, capacity, s) ==
    IF ~(s.bit < 8 /\ Len(s.out) < capacity) THEN s
    ELSE LET bit_val == BitOf(s.byte, s.bit)
             ones_count == IF bit_val = 1 THEN s.ones_count + 1 ELSE 0
             out == Append(s.out, bit_val)
         IN  IF ones_count = 5
             THEN IF s.i + 1 >= input_len
                  THEN [s EXCEPT !.out = out, !.ones_count = 0, !.i = s.i + 1]
                  ELSE bit_unstuff_bit_loop(input_len, capacity,
                           [s EXCEPT !.out = out, !.ones_count = 0, !.i = s.i + 1,
                                     !.bit = 0])
             ELSE bit_unstuff_bit_loop(input_len, capacity,
                      [s EXCEPT !.out = out, !.ones_count = ones_count,
                                !.bit = s.bit + 1])

RECURSIVE bit_unstuff_octet_loop(_, _, _, _)
bit_unstuff_octet_loop(input, input_len, capacity, s) ==
    IF ~(s.i < input_len /\ Len(s.out) < capacity) THEN s
    ELSE LET t == bit_unstuff_bit_loop(input_len, capacity,
                      [s EXCEPT !.byte = input[s.i + 1], !.bit = 0])
         IN  bit_unstuff_octet_loop(input, input_len, capacity,
                                    [t EXCEPT !.i = t.i + 1])

\* ax25_bit_unstuff(input, input_len, output, output_len).
ax25_bit_unstuff(input, input_len, capacity) ==
    LET s == bit_unstuff_octet_loop(input, input_len, capacity,
                 [i |-> 0, bit |-> 0, byte |-> 0, out |-> <<>>, ones_count |-> 0])
    IN  [ret |-> 0, bits |-> s.out, output_len |-> Len(s.out)]

(***************************************************************************)
(* The payloads of the negotiation frames as octets                        *)
(* (lib/negotiation_frame.cc).  A station id is the sequence of its        *)
(* character codes, a mode is its number in modulation_mode_t, a float is  *)
(* the 32 bits of its IEEE 754 representation.                             *)
(***************************************************************************)
\* std::min(static_cast<size_t>(255), station_id.length()), the id length
\* octet and the id octets that follow it.
id_len_of(station_id) == IF Len(station_id) > 255 THEN 255 ELSE Len(station_id)
StationIdOctets(station_id) ==
    <<id_len_of(station_id)>> \o SubSeq(station_id, 1, id_len_of(station_id))

\* static_cast<uint8_t>(mode)
ModeOctet(mode) == mode % 256

\* The four push_back of a float's bits, low octet first, and the number
\* that the decoder puts together from four octets at data[pos].  The 32
\* bits are kept as <<bits 0..15, bits 16..31>>.
FloatOctets(bits) ==
    <<bits[1] % 256, (bits[1] \div 256) % 256, bits[2] % 256, (bits[2] \div 256) % 256>>
FloatBitsAt(data, pos) ==
    <<BitOr(data[pos + 1], data[pos + 2] * 256),
      BitOr(data[pos + 3], data[pos + 4] * 256)>>

\* What a decoder gives: whether it returned true, and the fields it set.
Decoded(fields) == [ok |-> TRUE, fields |-> fields]
NotDecoded == [ok |-> FALSE]

encode_negotiation_request_octets(station_id, proposed_mode, supported_modes) ==
    LET num_modes == IF Len(supported_modes) > MaxRequestModes THEN MaxRequestModes
                     ELSE Len(supported_modes)
    IN  StationIdOctets(station_id) \o <<ModeOctet(proposed_mode), num_modes>>
        \o [i \in 1..num_modes |-> ModeOctet(supported_modes[i])]

decode_negotiation_request(data, length) ==
    IF length < 3 THEN NotDecoded
    ELSE LET id_len == data[1]
             pos == 1 + id_len
         IN  IF 1 + id_len + 2 > length THEN NotDecoded
             ELSE LET num_modes == data[pos + 2]
                  IN  IF pos + 2 + num_modes > length THEN NotDecoded
                      ELSE Decoded([station_id |-> SubSeq(data, 2, 1 + id_len),
                                    proposed_mode |-> data[pos + 1],
                                    supported_modes |->
                                        [i \in 1..num_modes |-> data[pos + 2 + i]]])

encode_negotiation_response_octets(station_id, accepted, negotiated_mode) ==
    StationIdOctets(station_id)
    \o <<IF accepted THEN 1 ELSE 0, ModeOctet(negotiated_mode)>>

decode_negotiation_response(data, length) ==
    IF length < 3 THEN NotDecoded
    ELSE LET id_len == data[1]
             pos == 1 + id_len
         IN  IF 1 + id_len + 2 > length THEN NotDecoded
             ELSE Decoded([station_id |-> SubSeq(data, 2, 1 + id_len),
                           accepted |-> data[pos + 1] # 0,
                           negotiated_mode |-> data[pos + 2]])

encode_mode_change_octets(station_id, new_mode) ==
    StationIdOctets(station_id) \o <<ModeOctet(new_mode)>>

decode_mode_change(data, length) ==
    IF length < 2 THEN NotDecoded
    ELSE LET id_len == data[1]
             pos == 1 + id_len
         IN  IF 1 + id_len + 1 > length THEN NotDecoded
             ELSE Decoded([station_id |-> SubSeq(data, 2, 1 + id_len),
                           new_mode |-> data[pos + 1]])

encode_quality_feedback(station_id, snr_db, ber, quality_score) ==
    StationIdOctets(station_id)
    \o FloatOctets(snr_db) \o FloatOctets(ber) \o FloatOctets(quality_score)

decode_quality_feedback(data, length) ==
    IF length < 14 THEN NotDecoded
    ELSE LET id_len == data[1]
             pos == 1 + id_len
         IN  IF 1 + id_len + 12 > length THEN NotDecoded
             ELSE Decoded([station_id |-> SubSeq(data, 2, 1 + id_len),
                           snr_db |-> FloatBitsAt(data, pos),
                           ber |-> FloatBitsAt(data, pos + 4),
                           quality_score |-> FloatBitsAt(data, pos + 8)])

(***************************************************************************)
(* The initial state: ax25_init has run and the two blocks are built with  *)
(* their default arguments.                                                *)
(***************************************************************************)
LocalModes == <<MODE_4FSK, MODE_QAM16>>

Init ==
    /\ ax25_init
    /\ NoFecBlock
    /\ last = Call("ax25_init", ZeroAddr, 0, NoInfo)
    /\ rc = DefaultRateControl
    /\ neg = modulation_negotiation_impl(LocalStation, LocalModes, NegotiationTimeout)
    /\ d_mutex = "none"

(***************************************************************************)
(* The rate control block alone: built with any arguments, then used by    *)
(* its callers.                                                            *)
(***************************************************************************)
\* The SNR values given to update_quality: the lowest and the highest, and
\* values at and next to the edges of the hysteresis bands of MODE_2FSK,
\* MODE_4FSK, MODE_QAM64_12500 and MODE_QAM256.
UpdateSnrInputs ==
    {dB(SnrLowDb), dB(6) - 1, dB(6), dB(17), dB(17) + 1, dB(20), dB(21), dB(22),
     dB(22) + 1, dB(37), dB(37) + 1, dB(SnrHighDb)}
HysteresisInputs == {dB(2)}
\* The modes given to set_modulation_mode (the constructor is given any mode).
SetModeInputs == {MODE_2FSK, MODE_4FSK, MODE_QAM64_12500, MODE_QAM256,
                  MODE_SOQPSK_1M, MODE_SOQPSK_40M}
\* A good and a bad link: {ber, quality_score}.
QualityInputs == {[ber |-> 0, quality_score |-> 99], [ber |-> 2000, quality_score |-> 0]}

InitRate ==
    /\ ax25_init
    /\ NoFecBlock
    /\ neg = modulation_negotiation_impl(LocalStation, LocalModes, NegotiationTimeout)
    /\ d_mutex = "none"
    /\ \E initial_mode \in Modes, enable_adaptation \in BOOLEAN,
          hysteresis_db \in HysteresisInputs, enable_tier4 \in BOOLEAN :
          /\ rc = adaptive_rate_control_impl(initial_mode, enable_adaptation,
                                             hysteresis_db, enable_tier4)
          /\ last = BlockCall("adaptive_rate_control_impl",
                              [initial_mode |-> initial_mode,
                               enable_tier4 |-> enable_tier4], 0, <<>>)

RateSetMode == \E mode \in SetModeInputs :
    set_modulation_mode(mode) /\ UNCHANGED <<tncVars, neg, d_mutex>>
RateSetAdaptation == \E enabled \in BOOLEAN :
    set_adaptation_enabled(enabled) /\ UNCHANGED <<tncVars, neg, d_mutex>>
RateSetTier4 == \E enabled \in BOOLEAN :
    set_tier4_enabled(enabled) /\ UNCHANGED <<tncVars, neg, d_mutex>>
RateUpdateQuality == \E snr_db \in UpdateSnrInputs, q \in QualityInputs :
    update_quality(snr_db, q.ber, q.quality_score) /\ UNCHANGED <<tncVars, neg, d_mutex>>

NextRate ==
    \/ RateSetMode
    \/ RateSetAdaptation
    \/ RateSetTier4
    \/ RateUpdateQuality

SpecRate == InitRate /\ [][NextRate]_vars

(***************************************************************************)
(* recommend_mode as a function of its arguments: the rate control is      *)
(* built with or without Tier 4, and recommend_mode is called over the     *)
(* whole SNR range.                                                        *)
(***************************************************************************)
SnrInputs == dB(SnrLowDb)..dB(SnrHighDb)
BerInputs == {0, 2000}

InitRecommend ==
    /\ ax25_init
    /\ NoFecBlock
    /\ neg = modulation_negotiation_impl(LocalStation, LocalModes, NegotiationTimeout)
    /\ d_mutex = "none"
    /\ \E enable_tier4 \in BOOLEAN :
          /\ rc = adaptive_rate_control_impl(MODE_2FSK, TRUE, dB(2), enable_tier4)
          /\ last = BlockCall("adaptive_rate_control_impl",
                              [initial_mode |-> MODE_2FSK,
                               enable_tier4 |-> enable_tier4], 0, <<>>)

Recommend == \E snr_db \in SnrInputs, ber \in BerInputs :
    recommend_mode_call(snr_db, ber) /\ UNCHANGED <<tncVars, neg, d_mutex>>
RecommendSetTier4 == \E enabled \in BOOLEAN :
    set_tier4_enabled(enabled) /\ UNCHANGED <<tncVars, neg, d_mutex>>

NextRecommend ==
    \/ Recommend
    \/ RecommendSetTier4

SpecRecommend == InitRecommend /\ [][NextRecommend]_vars

(***************************************************************************)
(* The Reed-Solomon codec of a FEC block, built for one of its code        *)
(* profiles. The field arithmetic of the encoder's field object is called  *)
(* with any operands; and data is encoded, the channel adds errors to the  *)
(* codeword, and the received word is decoded.                             *)
(***************************************************************************)
\* (n, k) of IL2P_FEC_RS_255_247 and IL2P_FEC_RS_255_239 in the IL2P block, and
\* of the FX.25 block's default, ReedSolomonEncoder(16, 12).
RSCodes == {<<255, 247>>, <<255, 239>>, <<16, 12>>}
\* Operands of multiply and divide.
GFOperands == {1, 2, 3, 29, 128, 255}
\* Octet vectors that are 0 but at a few places: sets of <<place, octet>>.
SparseVector(n, places) ==
    [i \in 0..(n - 1) |->
        IF \E p \in places : p[1] = i
        THEN (CHOOSE p \in places : p[1] = i)[2]
        ELSE 0]
DataInputs ==
    {{}, {<<0, 1>>}, {<<0, 2>>, <<3, 4>>}, {<<5, 255>>, <<238, 7>>},
     {<<0, 1>>, <<129, 1>>, <<172, 97>>}}
\* Channel errors: none, one octet (in the data, in the parity), four and
\* five octets.
ErrorPatterns ==
    {{}, {<<0, 1>>}, {<<5, 165>>}, {<<128, 1>>}, {<<250, 1>>},
     {<<3, 165>>, <<17, 165>>, <<88, 165>>, <<202, 165>>},
     {<<3, 165>>, <<17, 165>>, <<88, 165>>, <<202, 165>>, <<254, 165>>}}
\* c xor e
WithErrors(c, e) ==
    [i \in DOMAIN c |->
        IF \E p \in e : p[1] = i
        THEN BitXor(c[i], (CHOOSE p \in e : p[1] = i)[2])
        ELSE c[i]]

CodecCall(fn, args, ret, left_at) ==
    [fn |-> fn, args |-> args, ret |-> ret, left_at |-> left_at]

\* initialize_reed_solomon of il2p_reed_solomon_impl and of fx25_fec_impl: the
\* two objects are allocated, each in storage of any content.
initialize_reed_solomon(n, k, was_encoder, was_decoder) ==
    /\ d_reed_solomon_encoder = ReedSolomonEncoder(n, k, was_encoder)
    /\ d_reed_solomon_decoder = ReedSolomonDecoder(n, k, was_decoder)

InitFec ==
    /\ ax25_init
    /\ rc = DefaultRateControl
    /\ neg = modulation_negotiation_impl(LocalStation, LocalModes, NegotiationTimeout)
    /\ d_mutex = "none"
    /\ \E code \in RSCodes, was_encoder \in IndeterminateOctets,
          was_decoder \in IndeterminateOctets :
          /\ initialize_reed_solomon(code[1], code[2], was_encoder, was_decoder)
          /\ last = CodecCall("initialize_reed_solomon",
                               [n |-> code[1], k |-> code[2]], 0, "")

FecMultiply == \E a \in GFOperands, b \in GFOperands :
    /\ last' = CodecCall("multiply", [a |-> a, b |-> b],
                         multiply(d_reed_solomon_encoder.d_gf, a, b), "")
    /\ UNCHANGED <<tncVars, blockVars>>
FecDivide == \E a \in GFOperands, b \in GFOperands :
    /\ last' = CodecCall("divide", [a |-> a, b |-> b],
                         divide(d_reed_solomon_encoder.d_gf, a, b), "")
    /\ UNCHANGED <<tncVars, blockVars>>

NextField ==
    \/ FecMultiply
    \/ FecDivide

SpecField == InitFec /\ [][NextField]_vars

\* The block's first data is encoded.
FecEncode == \E d \in DataInputs :
    /\ last.fn = "initialize_reed_solomon"
    /\ \A p \in d : p[1] < d_reed_solomon_encoder.d_k
    /\ last' = CodecCall("encode", [data |-> d],
                         encode(d_reed_solomon_encoder,
                                SparseVector(d_reed_solomon_encoder.d_k, d)), "")
    /\ UNCHANGED <<tncVars, blockVars>>
\* The codeword just encoded arrives with the channel's errors and is decoded.
FecDecode == \E e \in ErrorPatterns :
    /\ last.fn = "encode"
    /\ LET run == decode_run(d_reed_solomon_decoder, WithErrors(last.ret, e))
       IN  last' = CodecCall("decode", [data |-> last.args.data, error |-> e],
                             run.result, run.left_at)
    /\ UNCHANGED <<tncVars, blockVars>>

NextFec ==
    \/ FecEncode
    \/ FecDecode

SpecFec == InitFec /\ [][NextFec]_vars

(***************************************************************************)
(* The negotiation block as responder and initiator, without automatic     *)
(* negotiation: frames come from two stations.                             *)
(***************************************************************************)
NegModes == {MODE_4FSK, MODE_QPSK, MODE_QAM16}
PeerLists == {<<>>, <<MODE_QPSK>>, <<MODE_4FSK, MODE_QAM16>>, <<MODE_QAM16, MODE_4FSK>>}

InitNeg ==
    /\ ax25_init
    /\ NoFecBlock
    /\ rc = DefaultRateControl
    /\ neg = modulation_negotiation_impl(LocalStation, LocalModes, NegotiationTimeout)
    /\ d_mutex = "none"
    /\ last = BlockCall("modulation_negotiation_impl",
                        [supported_modes |-> LocalModes], 0, <<>>)

NegSetSender == \E callback \in BOOLEAN :
    set_kiss_frame_sender(callback) /\ UNCHANGED <<tncVars, rc>>
NegInitiate == \E proposed_mode \in NegModes :
    initiate_negotiation(Station1, proposed_mode) /\ UNCHANGED <<tncVars, rc>>
NegRequest == \E proposed_mode \in NegModes, supported_modes \in PeerLists :
    /\ handle_negotiation_frame(KISS_CMD_NEG_REQ,
           encode_negotiation_request(Station1, proposed_mode, supported_modes))
    /\ UNCHANGED <<tncVars, rc>>
NegResponse == \E station_id \in {Station1, Station2}, accepted \in BOOLEAN,
                  negotiated_mode \in NegModes :
    /\ handle_negotiation_frame(KISS_CMD_NEG_RESP,
           encode_negotiation_response(station_id, accepted, negotiated_mode))
    /\ UNCHANGED <<tncVars, rc>>
NegModeChange ==
    /\ handle_negotiation_frame(KISS_CMD_MODE_CHANGE,
           encode_mode_change(Station2, MODE_QPSK))
    /\ UNCHANGED <<tncVars, rc>>
NegOther == \E command \in {KISS_CMD_NEG_REQ, KISS_CMD_QUALITY_FB} :
    handle_negotiation_frame(command, Truncated) /\ UNCHANGED <<tncVars, rc>>
NegWork == work /\ UNCHANGED <<tncVars, rc>>
NegTick == TimePasses /\ UNCHANGED <<tncVars, rc>>

NextNeg ==
    \/ NegSetSender
    \/ NegInitiate
    \/ NegRequest
    \/ NegResponse
    \/ NegModeChange
    \/ NegOther
    \/ NegWork
    \/ NegTick

SpecNeg == InitNeg /\ [][NextNeg]_vars

(***************************************************************************)
(* Automatic negotiation: the negotiation block bound to the rate control  *)
(* block, whose mode its user sets; a sender is installed.                 *)
(***************************************************************************)
AutoSetSender == set_kiss_frame_sender(TRUE) /\ UNCHANGED <<tncVars, rc>>
AutoEnable == \E enabled \in BOOLEAN, rate_control \in BOOLEAN :
    set_auto_negotiation_enabled(enabled, rate_control) /\ UNCHANGED <<tncVars, rc>>
AutoRateMode == \E mode \in NegModes :
    set_modulation_mode(mode) /\ UNCHANGED <<tncVars, neg, d_mutex>>
AutoInitiate == initiate_negotiation(Station1, MODE_QAM16) /\ UNCHANGED <<tncVars, rc>>
AutoResponse == \E accepted \in BOOLEAN :
    /\ handle_negotiation_frame(KISS_CMD_NEG_RESP,
           encode_negotiation_response(Station1, accepted, MODE_QAM16))
    /\ UNCHANGED <<tncVars, rc>>
AutoModeChange ==
    /\ handle_negotiation_frame(KISS_CMD_MODE_CHANGE,
           encode_mode_change(Station2, MODE_QPSK))
    /\ UNCHANGED <<tncVars, rc>>
AutoWork == work /\ UNCHANGED <<tncVars, rc>>
AutoTick == TimePasses /\ UNCHANGED <<tncVars, rc>>

NextAuto ==
    \/ AutoSetSender
    \/ AutoEnable
    \/ AutoRateMode
    \/ AutoInitiate
    \/ AutoResponse
    \/ AutoModeChange
    \/ AutoWork
    \/ AutoTick

SpecAuto == InitNeg /\ [][NextAuto]_vars

(***************************************************************************)
(* The negotiation block with a sender that calls back into it, bound to   *)
(* the rate control block: its callers, the frames it receives, its work   *)
(* thread and the sender it invokes.                                       *)
(***************************************************************************)
CbSetSender == \E callback \in BOOLEAN :
    set_kiss_frame_sender(callback) /\ UNCHANGED <<tncVars, rc>>
CbEnable == \E enabled \in BOOLEAN :
    set_auto_negotiation_enabled(enabled, TRUE) /\ UNCHANGED <<tncVars, rc>>
CbRateMode == \E mode \in NegModes :
    /\ d_mutex = "none"
    /\ set_modulation_mode(mode)
    /\ UNCHANGED <<tncVars, neg, d_mutex>>
CbModeChange ==
    /\ handle_negotiation_frame(KISS_CMD_MODE_CHANGE,
           encode_mode_change(Station2, MODE_QPSK))
    /\ UNCHANGED <<tncVars, rc>>
CbInitiate == \E proposed_mode \in NegModes :
    initiate_negotiation_sends(Station1, proposed_mode) /\ UNCHANGED <<tncVars, rc>>
CbRequest == \E proposed_mode \in NegModes, supported_modes \in PeerLists :
    /\ handle_negotiation_frame_sends(KISS_CMD_NEG_REQ,
           encode_negotiation_request(Station1, proposed_mode, supported_modes))
    /\ UNCHANGED <<tncVars, rc>>
CbResponse == \E negotiated_mode \in NegModes :
    /\ handle_negotiation_frame_sends(KISS_CMD_NEG_RESP,
           encode_negotiation_response(Station1, TRUE, negotiated_mode))
    /\ UNCHANGED <<tncVars, rc>>
CbWorkIdle == ~ChecksModeChange /\ work /\ UNCHANGED <<tncVars, rc>>
CbWorkChecks == work_checks_mode /\ UNCHANGED <<tncVars, rc>>
CbWorkSends == check_mode_change_sends /\ UNCHANGED <<tncVars, rc>>
CbSenderCalls == \E fn \in {"get_negotiated_mode", "is_negotiating"} :
    sender_calls(fn) /\ UNCHANGED <<tncVars, rc>>
CbSenderReturns == send_kiss_frame_returns /\ UNCHANGED <<tncVars, rc>>

NextCallback ==
    \/ CbSetSender
    \/ CbEnable
    \/ CbRateMode
    \/ CbModeChange
    \/ CbInitiate
    \/ CbRequest
    \/ CbResponse
    \/ CbWorkIdle
    \/ CbWorkChecks
    \/ CbWorkSends
    \/ CbSenderCalls
    \/ CbSenderReturns

SpecCallback == InitNeg /\ [][NextCallback]_vars

(***************************************************************************)
(* The data path of one link: the callers' operations on the link to       *)
(* Peer1 and the frames Peer1 sends.                                       *)
(***************************************************************************)
TxInfos == {NoInfo, [length |-> 1, tag |-> 1], [length |-> AX25_MAX_INFO + 1, tag |-> 1]}
BufferSizes == {0, AX25_MAX_INFO}

Connect == ax25_connect(Peer1) /\ UNCHANGED blockVars
Disconnect == ax25_disconnect(Peer1) /\ UNCHANGED blockVars
SendData == \E d \in TxInfos : ax25_send_data(Peer1, d) /\ UNCHANGED blockVars
FrameReceived == \E f \in RxIFrames(Peer1) \cup {RxUAFrame(Peer1)} :
                    DeliverFrame(f) /\ UNCHANGED blockVars
ReceiveData == \E c \in BufferSizes : ax25_receive_data(c) /\ UNCHANGED blockVars

Next ==
    \/ Connect
    \/ Disconnect
    \/ SendData
    \/ FrameReceived
    \/ ReceiveData

Spec == Init /\ [][Next]_vars

(***************************************************************************)
(* The connection table and its timers: two peers, and a table that is     *)
(* either empty of, or filled with, Prefill other stations (one            *)
(* ax25_connect each, before the peers are used).                          *)
(***************************************************************************)
FillCount == Cardinality({i \in Slots : /\ connections[i].state # "DISCONNECTED"
                                         /\ connections[i].remote_addr \in BackgroundAddrs})

Filling == \/ last.fn = "ax25_init"
           \/ last.fn = "ax25_connect" /\ last.remote \in BackgroundAddrs

Settled == FillCount = 0 \/ FillCount = Prefill

TableFill ==
    /\ Filling
    /\ FillCount < Prefill
    /\ ax25_connect(Background(FillCount + 1))
    /\ UNCHANGED blockVars

TableConnect == \E r \in {Peer1, Peer2} :
                    Settled /\ ax25_connect(r) /\ UNCHANGED blockVars
TableDisconnect == \E r \in {Peer1, Peer2} :
                       Settled /\ ax25_disconnect(r) /\ UNCHANGED blockVars
TableSendData == \E r \in {Peer1, Peer2} :
                     /\ Settled
                     /\ ax25_send_data(r, [length |-> 1, tag |-> 1])
                     /\ UNCHANGED blockVars
TableFrameReceived ==
    \E f \in {RxUAFrame(Peer1), RxUAFrame(Peer2),
              ax25_create_frame(Peer1, MyAddress, IFrameControl(0, 0), AX25_PID_NONE, RxInfo)} :
        Settled /\ DeliverFrame(f) /\ UNCHANGED blockVars
TableReceiveData == Settled /\ ax25_receive_data(AX25_MAX_INFO) /\ UNCHANGED blockVars
TableT1 == \E i \in Slots : Settled /\ connections[i].remote_addr \notin BackgroundAddrs
                            /\ T1Elapses(i) /\ UNCHANGED blockVars

NextTable ==
    \/ TableFill
    \/ TableConnect
    \/ TableDisconnect
    \/ TableSendData
    \/ TableFrameReceived
    \/ TableReceiveData
    \/ TableT1

SpecTable == Init /\ [][NextTable]_vars

(***************************************************************************)
(* The frame codec as its callers use it, after ax25_init: the FCS of an   *)
(* octet string is computed; a string with its FCS is received, perhaps    *)
(* with one bit flipped, and checked; a frame is encoded and the octets,   *)
(* perhaps damaged, are parsed and validated; an octet string is bit       *)
(* stuffed and the result is unstuffed.                                    *)
(***************************************************************************)
\* Octets of the strings given to the FCS functions, and their lengths.
FcsOctets == {0, 1, 126, 255}
MaxFcsLen == 2
\* "123456789"
CheckString == <<49, 50, 51, 52, 53, 54, 55, 56, 57>>
FcsInputs ==
    UNION {[1..n -> FcsOctets] : n \in 0..MaxFcsLen} \cup {CheckString}

\* data with bit (flip - 1) inverted, counting from bit 0 of data[0]; data
\* itself for flip = 0.
FlipBit(data, flip) ==
    IF flip = 0 THEN data
    ELSE [i \in 1..Len(data) |->
             IF i = ((flip - 1) \div 8) + 1
             THEN BitXor(data[i], 2 ^ ((flip - 1) % 8))
             ELSE data[i]]

\* data followed by its FCS, low octet first (as ax25_encode_frame adds it).
WithFcs(data) ==
    LET fcs == ax25_calculate_fcs(data, Len(data))
    IN  data \o <<fcs % 256, (fcs \div 256) % 256>>
\* The 16-bit number in the two trailing octets.
TrailingFcs(data) == data[Len(data) - 1] + (256 * data[Len(data)])

CodecCallOf(fn, args, ret) == [fn |-> fn, args |-> args, ret |-> ret]

WireCalculateFcs == \E data \in FcsInputs :
    /\ last.fn = "ax25_init"
    /\ last' = CodecCallOf("ax25_calculate_fcs", [data |-> data],
                           ax25_calculate_fcs(data, Len(data)))
    /\ UNCHANGED <<tncVars, blockVars>>

\* The string whose FCS was just computed arrives with that FCS, one of its
\* bits flipped or none, and the receiver checks it against the FCS octets
\* it received.
WireCheckFcs == \E flip \in 0..(8 * (MaxFcsLen + 2)) :
    /\ last.fn = "ax25_calculate_fcs"
    /\ Len(last.args.data) <= MaxFcsLen
    /\ flip <= 8 * (Len(last.args.data) + 2)
    /\ LET received == FlipBit(WithFcs(last.args.data), flip)
       IN  last' = CodecCallOf("ax25_check_fcs",
                               [data |-> last.args.data, flip |-> flip],
                               ax25_check_fcs(received, Len(received),
                                              TrailingFcs(received)))
    /\ UNCHANGED <<tncVars, blockVars>>

\* Frames: 2, 3 and AX25_MAX_ADDRS addresses; an I, a UI and a SABM control
\* octet; no information, a short one, one longer than an address, and
\* AX25_MAX_INFO octets.
WireSrc == ax25_set_address_octets(<<78, 48, 67, 65, 76, 76>>, 0, FALSE)
WireDst == ax25_set_address_octets(<<99, 113>>, 7, TRUE)
WireDigi(n) == ax25_set_address_octets(<<87, 73, 68, 69, 48 + n>>, n, FALSE)
DigipeaterInputs == {<<>>, <<WireDigi(1)>>, [n \in 1..(AX25_MAX_ADDRS - 2) |-> WireDigi(n)]}
AX25_CTRL_UI == 3
ControlInputs == {AX25_CTRL_I, AX25_CTRL_UI, AX25_CTRL_SABM}
InfoInputs ==
    {<<>>, <<72>>, <<72, 101, 108, 108, 111>>, [i \in 1..AX25_MAX_INFO |-> i % 251]}
FrameInputs ==
    {create_frame_octets(WireSrc, WireDst, digipeaters, control, AX25_PID_NONE, info) :
        digipeaters \in DigipeaterInputs, control \in ControlInputs, info \in InfoInputs}
\* Size of the caller's octet buffer.
WireCapacity == 400

WireEncodeFrame == \E frame \in FrameInputs :
    /\ last.fn = "ax25_init"
    /\ last' = CodecCallOf("ax25_encode_frame", [frame |-> frame],
                           ax25_encode_frame(frame, WireCapacity))
    /\ UNCHANGED <<tncVars, blockVars>>

\* The octets just encoded are received: as sent, with bit 0 of the first FCS
\* octet flipped, or with bit 0 of the control octet flipped; they are parsed
\* into a zeroed frame and the frame is validated.
DamageInputs == {"none", "fcs", "control"}
Damaged(frame, data, damage) ==
    IF damage = "fcs" THEN FlipBit(data, (8 * (Len(data) - 2)) + 1)
    ELSE IF damage = "control" THEN FlipBit(data, (8 * 7 * frame.num_addresses) + 1)
    ELSE data
WireParseFrame == \E damage \in DamageInputs :
    /\ last.fn = "ax25_encode_frame"
    /\ last.ret.ret = 0
    /\ LET received == Damaged(last.args.frame, last.ret.data, damage)
           parsed == ax25_parse_frame(received, Len(received), ZeroOctetFrame)
       IN  last' = CodecCallOf("ax25_parse_frame",
                               [frame |-> last.args.frame, data |-> received,
                                damage |-> damage],
                               [ret |-> parsed.ret, frame |-> parsed.frame,
                                validate |-> ax25_validate_frame(parsed.frame)])
    /\ UNCHANGED <<tncVars, blockVars>>

\* Octet strings to stuff: without a run of five 1-bits, with one inside an
\* octet, with one across two octets, and with several.
StuffOctets == {0, 31, 62, 170, 240, 255}
MaxStuffLen == 2
StuffInputs == UNION {[1..n -> StuffOctets] : n \in 0..MaxStuffLen}
\* Size in bits of the caller's output buffers.
StuffCapacity == 64

WireBitStuff == \E input \in StuffInputs :
    /\ last.fn = "ax25_init"
    /\ last' = CodecCallOf("ax25_bit_stuff", [input |-> input],
                           ax25_bit_stuff(input, Len(input), StuffCapacity))
    /\ UNCHANGED <<tncVars, blockVars>>

\* The octets that hold the stuffed bits are unstuffed; the output buffer of
\* ax25_bit_stuff held was in every octet before the call.
WireBitUnstuff == \E was \in {0, 255} :
    /\ last.fn = "ax25_bit_stuff"
    /\ last.ret.ret = 0
    /\ LET stuffed == OctetsOfBits(last.ret.bits, was)
       IN  last' = CodecCallOf("ax25_bit_unstuff",
                               [input |-> last.args.input, stuffed |-> stuffed,
                                stuffed_len |-> last.ret.output_len],
                               ax25_bit_unstuff(stuffed, Len(stuffed), StuffCapacity))
    /\ UNCHANGED <<tncVars, blockVars>>

\* Callsigns of 1 to 6 characters, in upper and lower case and with digits:
\* "A", "n0", "w1a", "K9XY", "ab1cd", "N0CALL".
CallsignInputs ==
    {<<65>>, <<110, 48>>, <<119, 49, 97>>, <<75, 57, 88, 89>>,
     <<97, 98, 49, 99, 100>>, <<78, 48, 67, 65, 76, 76>>}

WireSetAddress == \E callsign \in CallsignInputs, ssid \in 0..15, command \in BOOLEAN :
    /\ last.fn = "ax25_init"
    /\ last' = CodecCallOf("ax25_set_address",
                           [callsign |-> callsign, ssid |-> ssid, command |-> command],
                           [ret |-> 0,
                            addr |-> ax25_set_address_octets(callsign, ssid, command)])
    /\ UNCHANGED <<tncVars, blockVars>>

\* The address just set is read back.
WireGetAddress ==
    /\ last.fn = "ax25_set_address"
    /\ last' = CodecCallOf("ax25_get_address", last.args,
                           ax25_get_address(last.ret.addr))
    /\ UNCHANGED <<tncVars, blockVars>>

NextWire ==
    \/ WireCalculateFcs
    \/ WireCheckFcs
    \/ WireEncodeFrame
    \/ WireParseFrame
    \/ WireBitStuff
    \/ WireBitUnstuff
    \/ WireSetAddress
    \/ WireGetAddress

SpecWire == Init /\ [][NextWire]_vars

(***************************************************************************)
(* The negotiation payloads between two stations: one encodes a message,   *)
(* the other decodes the octets it receives.                               *)
(***************************************************************************)
\* Station ids of 0, 5 and 255 octets.
LongestId == 255
StationIdInputs == {<<>>, <<80, 69, 69, 82, 49>>, [i \in 1..LongestId |-> 65 + (i % 26)]}
ModeInputs == {MODE_2FSK, MODE_QAM16, MODE_SOQPSK_40M}
\* Lists of supported modes: none, two, as many as a request carries, one
\* more, and as many as the count octet can tell.
LongestList == 255
ModeLists ==
    {[i \in 1..n |-> (i - 1) % (MODE_SOQPSK_40M + 1)] :
        n \in {0, 2, MaxRequestModes, MaxRequestModes + 1, LongestList}}
\* 10.0f, -1.0f and 0.001f
FloatInputs == {<<0, 16672>>, <<0, 49024>>, <<4719, 14979>>}

NegEncodeRequest ==
    \E station_id \in StationIdInputs, mode \in ModeInputs, modes \in ModeLists :
    /\ last.fn = "ax25_init"
    /\ last' = CodecCallOf("encode_negotiation_request",
                   [station_id |-> station_id, proposed_mode |-> mode,
                    supported_modes |-> modes],
                   encode_negotiation_request_octets(station_id, mode, modes))
    /\ UNCHANGED <<tncVars, blockVars>>
NegEncodeResponse ==
    \E station_id \in StationIdInputs, accepted \in BOOLEAN, mode \in ModeInputs :
    /\ last.fn = "ax25_init"
    /\ last' = CodecCallOf("encode_negotiation_response",
                   [station_id |-> station_id, accepted |-> accepted,
                    negotiated_mode |-> mode],
                   encode_negotiation_response_octets(station_id, accepted, mode))
    /\ UNCHANGED <<tncVars, blockVars>>
NegEncodeModeChange ==
    \E station_id \in StationIdInputs, mode \in ModeInputs :
    /\ last.fn = "ax25_init"
    /\ last' = CodecCallOf("encode_mode_change",
                   [station_id |-> station_id, new_mode |-> mode],
                   encode_mode_change_octets(station_id, mode))
    /\ UNCHANGED <<tncVars, blockVars>>
NegEncodeQualityFeedback ==
    \E station_id \in StationIdInputs, snr_db \in FloatInputs, ber \in FloatInputs,
       quality_score \in FloatInputs :
    /\ last.fn = "ax25_init"
    /\ last' = CodecCallOf("encode_quality_feedback",
                   [station_id |-> station_id, snr_db |-> snr_db, ber |-> ber,
                    quality_score |-> quality_score],
                   encode_quality_feedback(station_id, snr_db, ber, quality_score))
    /\ UNCHANGED <<tncVars, blockVars>>

\* The octets just encoded are decoded by the decoder of their message type;
\* args keeps the fields that were encoded.
NegDecodeRequest ==
    /\ last.fn = "encode_negotiation_request"
    /\ last' = CodecCallOf("decode_negotiation_request", last.args,
                           decode_negotiation_request(last.ret, Len(last.ret)))
    /\ UNCHANGED <<tncVars, blockVars>>
NegDecodeResponse ==
    /\ last.fn = "encode_negotiation_response"
    /\ last' = CodecCallOf("decode_negotiation_response", last.args,
                           decode_negotiation_response(last.ret, Len(last.ret)))
    /\ UNCHANGED <<tncVars, blockVars>>
NegDecodeModeChange ==
    /\ last.fn = "encode_mode_change"
    /\ last' = CodecCallOf("decode_mode_change", last.args,
                           decode_mode_change(last.ret, Len(last.ret)))
    /\ UNCHANGED <<tncVars, blockVars>>
NegDecodeQualityFeedback ==
    /\ last.fn = "encode_quality_feedback"
    /\ last' = CodecCallOf("decode_quality_feedback", last.args,
                           decode_quality_feedback(last.ret, Len(last.ret)))
    /\ UNCHANGED <<tncVars, blockVars>>

NextNegFrame ==
    \/ NegEncodeRequest
    \/ NegEncodeResponse
    \/ NegEncodeModeChange
    \/ NegEncodeQualityFeedback
    \/ NegDecodeRequest
    \/ NegDecodeResponse
    \/ NegDecodeModeChange
    \/ NegDecodeQualityFeedback

SpecNegFrame == Init /\ [][NextNegFrame]_vars

(***************************************************************************)
(* ax25_send_ui_frame(tnc, src, dst, digipeaters, num_digipeaters, pid,    *)
(* info, info_len) on the frames of the link model: the digipeaters are    *)
(* counted in num_addresses.                                               *)
(***************************************************************************)
ax25_send_ui_frame(src, dst, num_digipeaters, pid, info) ==
    IF \/ info.length > AX25_MAX_INFO
       \/ num_digipeaters > 0 /\ 2 + num_digipeaters > AX25_MAX_ADDRS
    THEN \* ax25_create_frame fails, or too many addresses: return -1
         /\ last' = Call("ax25_send_ui_frame", dst, -1, NoInfo)
         /\ UNCHANGED <<linkVars, histVars>>
    ELSE /\ tx_frame' = [ax25_create_frame(src, dst, AX25_CTRL_UI, pid, info)
                            EXCEPT !.num_addresses = 2 + num_digipeaters]
         /\ frame_ready' = TRUE
         /\ last' = Call("ax25_send_ui_frame", dst, 0, NoInfo)
         /\ UNCHANGED <<connections, num_connections, rx_frame, histVars>>

(***************************************************************************)
(* The two frame slots of the TNC and its flag: the callers' operations    *)
(* that queue a frame on the link to Peer1, the frames Peer1 sends, and    *)
(* the caller's ax25_receive_data.                                         *)
(***************************************************************************)
\* Digipeaters given to ax25_send_ui_frame: none, one, and one more than a
\* frame has room for.
DigipeaterCounts == {0, 1, AX25_MAX_ADDRS - 1}
UIInfos == {NoInfo, [length |-> 1, tag |-> 3]}

QueueConnect == ax25_connect(Peer1) /\ UNCHANGED blockVars
QueueDisconnect == ax25_disconnect(Peer1) /\ UNCHANGED blockVars
QueueSendData == \E d \in TxInfos : ax25_send_data(Peer1, d) /\ UNCHANGED blockVars
QueueSendUI == \E num_digipeaters \in DigipeaterCounts, info \in UIInfos :
    /\ ax25_send_ui_frame(MyAddress, Peer1, num_digipeaters, AX25_PID_NONE, info)
    /\ UNCHANGED blockVars
QueueFrameReceived == \E f \in RxIFrames(Peer1) \cup {RxUAFrame(Peer1)} :
    DeliverFrame(f) /\ UNCHANGED blockVars
QueueReceiveData == \E c \in BufferSizes : ax25_receive_data(c) /\ UNCHANGED blockVars

NextQueue ==
    \/ QueueConnect
    \/ QueueDisconnect
    \/ QueueSendData
    \/ QueueSendUI
    \/ QueueFrameReceived
    \/ QueueReceiveData

SpecQueue == Init /\ [][NextQueue]_vars

(***************************************************************************)
(* Properties.                                                             *)
(***************************************************************************)
SlotOf(remote_addr) == find_connection(remote_addr)
TableFull == \A i \in Slots : connections[i].state # "DISCONNECTED"

\* C1: for a Connected connection, ax25_receive_data (with a buffer large
\* enough) accepts a received I-frame -- delivers its information field and
\* advances V(R) by one modulo 8 -- if and only if the frame's N(S) equals
\* V(R); otherwise no data is delivered and V(R) is unchanged.
C1_AcceptsOnlyInSequence ==
    [][(/\ ax25_receive_data(AX25_MAX_INFO)
        /\ frame_ready /\ rx_frame.valid /\ IsIFrame(rx_frame)
        /\ SlotOf(rx_frame.src) # 0
        /\ connections[SlotOf(rx_frame.src)].state = "CONNECTED")
       => LET i == SlotOf(rx_frame.src)
          IN  IF FrameNS(rx_frame) = connections[i].recv_seq
              THEN /\ last'.ret = 0
                   /\ last'.out = rx_frame.info
                   /\ connections'[i].recv_seq = (connections[i].recv_seq + 1) % 8
              ELSE /\ last'.ret = -1
                   /\ connections'[i].recv_seq = connections[i].recv_seq]_vars

\* C2: the number of I-frames sent on a connection and not yet acknowledged
\* by the peer never exceeds the connection's window size k.
C2_WindowNeverExceeded ==
    \A i \in Slots : connections[i].state # "DISCONNECTED"
                        => outstanding[i] <= connections[i].window_size

\* C3: a connection created by ax25_connect is Connecting with an SABM to
\* the remote queued, and when a UA from that remote is then received it
\* becomes Connected with V(S) = V(R) = 0 (so that ax25_send_data succeeds).
C3_UAEstablishesConnection ==
    [][/\ (/\ last'.fn = "ax25_connect" /\ last'.ret = 0
           /\ SlotOf(last'.remote) = 0)
          => LET i == find_free_connection
             IN  /\ connections'[i].state = "CONNECTING"
                 /\ connections'[i].remote_addr = last'.remote
                 /\ tx_frame'.control = AX25_CTRL_SABM
                 /\ tx_frame'.dst = last'.remote
                 /\ frame_ready'
       /\ (/\ last'.fn = "ax25_receive_data"
           /\ frame_ready /\ rx_frame.valid /\ rx_frame.control = AX25_CTRL_UA
           /\ SlotOf(rx_frame.src) # 0
           /\ connections[SlotOf(rx_frame.src)].state = "CONNECTING")
          => LET i == SlotOf(rx_frame.src)
             IN  /\ connections'[i].state = "CONNECTED"
                 /\ connections'[i].send_seq = 0
                 /\ connections'[i].recv_seq = 0]_vars

\* C4: after max_retries consecutive T1 expiries without an answer from the
\* peer the connection is Disconnected: no slot is still Connecting once
\* max_retries T1 intervals have elapsed on it.
C4_RetriesExhaustedDisconnects ==
    \A i \in Slots : t1_expired[i] >= DefaultMaxRetries
                        => connections[i].state # "CONNECTING"

\* C5: ax25_disconnect on a Connected connection queues a DISC frame and
\* leaves the connection in state Disconnecting (it is Disconnected only
\* later, on a UA or on the final T1 expiry).
C5_DisconnectLeavesDisconnecting ==
    [][(/\ last'.fn = "ax25_disconnect"
        /\ SlotOf(last'.remote) # 0
        /\ connections[SlotOf(last'.remote)].state = "CONNECTED")
       => LET i == SlotOf(last'.remote)
          IN  /\ tx_frame'.control = AX25_CTRL_DISC
              /\ tx_frame'.dst = last'.remote
              /\ connections'[i].state = "DISCONNECTING"]_vars

\* C6: in every reachable state the sequence variables V(S) and V(R) of
\* every connection slot are in 0..7.
C6_SequenceVariablesInRange ==
    \A i \in Slots : /\ connections[i].send_seq \in 0..7
                     /\ connections[i].recv_seq \in 0..7

\* A connection whose V(S) has wrapped from 7 to 0 and whose V(R) is 7.
C6_Witness ==
    \E i \in Slots : /\ connections[i].state = "CONNECTED"
                     /\ last_ns[i] = 7
                     /\ connections[i].send_seq = 0
                     /\ connections[i].recv_seq = 7

\* C7: every I-frame ax25_send_data emits carries N(S) = V(S) and
\* N(R) = V(R) as they were when it was called, and V(S) is then incremented
\* modulo 8; successive sends on a connection carry consecutive N(S)
\* modulo 8, the first one of a new connection N(S) = 0.
C7_SendCarriesSequenceNumbers ==
    [][(last'.fn = "ax25_send_data" /\ last'.ret = 0)
       => LET i == SlotOf(last'.remote)
              conn == connections[i]
          IN  /\ i # 0
              /\ IsIFrame(tx_frame')
              /\ tx_frame'.dst = last'.remote
              /\ FrameNS(tx_frame') = conn.send_seq
              /\ FrameNR(tx_frame') = conn.recv_seq
              /\ connections'[i].send_seq = (conn.send_seq + 1) % 8
              /\ FrameNS(tx_frame') = IF last_ns[i] = -1 THEN 0
                                      ELSE (last_ns[i] + 1) % 8]_vars

\* An I-frame with N(S) = 7 and N(R) = 3 has just been sent.
C7_Witness ==
    /\ last.fn = "ax25_send_data" /\ last.ret = 0
    /\ FrameNS(tx_frame) = 7
    /\ FrameNR(tx_frame) = 3
    /\ \E i \in Slots : last_ns[i] = 7 /\ connections[i].recv_seq = 3

\* C8: no two connection slots that are not Disconnected have the same
\* remote address (as ax25_address_equal compares addresses).
C8_OneConnectionPerRemote ==
    \A i, j \in Slots :
        (/\ i # j
         /\ connections[i].state # "DISCONNECTED"
         /\ connections[j].state # "DISCONNECTED")
        => ~ax25_address_equal(connections[i].remote_addr, connections[j].remote_addr)

\* Peer1 has a connection made by a received I-frame, Peer2 one made by
\* ax25_connect, and ax25_connect was just called again for Peer1.
C8_Witness ==
    /\ last.fn = "ax25_connect" /\ last.remote = Peer1 /\ last.ret = 0
    /\ SlotOf(Peer1) # 0 /\ connections[SlotOf(Peer1)].state = "CONNECTED"
    /\ SlotOf(Peer2) # 0 /\ connections[SlotOf(Peer2)].state = "CONNECTING"
    /\ num_connections = 2

\* C9: when all 16 slots hold connections that are not Disconnected,
\* ax25_connect to a remote without a connection returns -1 and changes
\* nothing: no slot, num_connections (16), no frame queued.
C9_FullTableRejectsConnect ==
    [][(/\ last'.fn = "ax25_connect"
        /\ TableFull
        /\ SlotOf(last'.remote) = 0)
       => /\ last'.ret = -1
          /\ connections' = connections
          /\ num_connections = NumSlots
          /\ num_connections' = NumSlots
          /\ tx_frame' = tx_frame
          /\ frame_ready' = frame_ready]_vars

\* ax25_connect has just failed on a full table.
C9_Witness ==
    /\ last.fn = "ax25_connect" /\ last.ret = -1
    /\ last.remote \in {Peer1, Peer2}
    /\ TableFull
    /\ SlotOf(last.remote) = 0
    /\ num_connections = NumSlots

\* C10: ax25_send_data to a remote that has no connection, or whose
\* connection is not Connected, returns -1 without queuing a frame and
\* without changing V(S) of any connection.
C10_SendNeedsConnected ==
    [][(/\ last'.fn = "ax25_send_data"
        /\ \/ SlotOf(last'.remote) = 0
           \/ connections[SlotOf(last'.remote)].state # "CONNECTED")
       => /\ last'.ret = -1
          /\ tx_frame' = tx_frame
          /\ frame_ready' = frame_ready
          /\ \A i \in Slots : connections'[i].send_seq = connections[i].send_seq]_vars

\* ax25_send_data has just failed for a remote whose connection is
\* Connecting, the SABM still being the queued frame.
C10_Witness ==
    /\ last.fn = "ax25_send_data" /\ last.ret = -1
    /\ SlotOf(last.remote) # 0
    /\ connections[SlotOf(last.remote)].state = "CONNECTING"
    /\ tx_frame.control = AX25_CTRL_SABM

\* C11: a connection comes into existence only through a local connect
\* request or the receipt of an SABM: an ax25_receive_data call that finds
\* an I-frame from a station with no connection creates no connection and
\* puts no slot into state CONNECTED.
C11_IFrameCreatesNoConnection ==
    [][(/\ ax25_receive_data(AX25_MAX_INFO)
        /\ frame_ready /\ rx_frame.valid /\ IsIFrame(rx_frame)
        /\ SlotOf(rx_frame.src) = 0)
       => /\ SlotOf(rx_frame.src)' = 0
          /\ num_connections' = num_connections
          /\ \A i \in Slots : connections'[i].state = "CONNECTED"
                               => connections[i].state = "CONNECTED"]_vars

(***************************************************************************)
(* Properties of the negotiation block.                                    *)
(***************************************************************************)
ModesOf(modes) == {modes[i] : i \in 1..Len(modes)}

\* The step handles a NEG_REQ that decodes.
HandlesRequest ==
    /\ last'.fn = "handle_negotiation_frame"
    /\ last'.args.command = KISS_CMD_NEG_REQ
    /\ decodes(last'.args.data)

\* The step handles a NEG_RESP that decodes.
HandlesResponse ==
    /\ last'.fn = "handle_negotiation_frame"
    /\ last'.args.command = KISS_CMD_NEG_RESP
    /\ decodes(last'.args.data)

\* The modes that the request of the step and the block have in common.
RequestCommonModes == ModesOf(last'.args.data.supported_modes) \cap ModesOf(neg.d_supported_modes)

SenderInstalled == neg.d_send_kiss_frame_callback

\* C12: responder, acceptance: on a NEG_REQ whose proposed_mode is in both
\* the peer's supported_modes and the local supported modes, the block
\* emits (to the installed sender) exactly one NEG_RESP with accepted=true
\* and negotiated_mode=proposed_mode, and its negotiated mode becomes
\* proposed_mode.
C12_ResponderAccepts ==
    [][(/\ HandlesRequest
        /\ last'.args.data.proposed_mode \in RequestCommonModes)
       => /\ neg'.d_negotiated_mode = last'.args.data.proposed_mode
          /\ SenderInstalled =>
                last'.sent = <<KissFrame(KISS_CMD_NEG_RESP,
                                  encode_negotiation_response(neg.d_station_id, TRUE,
                                      last'.args.data.proposed_mode))>>]_vars

\* A NEG_REQ from PEER1 proposing 16-QAM, which both stations support, has
\* been answered by one NEG_RESP and 16-QAM is the negotiated mode.
C12_Witness ==
    /\ last.fn = "handle_negotiation_frame"
    /\ last.args.command = KISS_CMD_NEG_REQ
    /\ decodes(last.args.data)
    /\ last.args.data.proposed_mode = MODE_QAM16
    /\ Contains(last.args.data.supported_modes, MODE_QAM16)
    /\ Contains(neg.d_supported_modes, MODE_QAM16)
    /\ neg.d_negotiated_mode = MODE_QAM16
    /\ Len(last.sent) = 1
    /\ last.sent[1].command = KISS_CMD_NEG_RESP
    /\ last.sent[1].data.accepted
    /\ last.sent[1].data.negotiated_mode = MODE_QAM16

\* C13: responder, counter-proposal: on a NEG_REQ whose proposed_mode is
\* not among the common modes, while there are common modes, the NEG_RESP
\* carries accepted=true and as negotiated_mode a common mode of the highest
\* bit-rate among the common modes, whatever the order of the peer's list.
C13_CounterProposesHighestRate ==
    [][(/\ HandlesRequest
        /\ SenderInstalled
        /\ last'.args.data.proposed_mode \notin RequestCommonModes
        /\ RequestCommonModes # {})
       => /\ Len(last'.sent) = 1
          /\ last'.sent[1].command = KISS_CMD_NEG_RESP
          /\ last'.sent[1].data.accepted
          /\ last'.sent[1].data.negotiated_mode \in RequestCommonModes
          /\ \A m \in RequestCommonModes :
                 data_rate(m) <= data_rate(last'.sent[1].data.negotiated_mode)]_vars

\* C14: responder, rejection: on a NEG_REQ for which the peer's
\* supported_modes and the local supported modes have no mode in common,
\* the block emits a NEG_RESP with accepted=false.
C14_NoCommonModeRejects ==
    [][(/\ HandlesRequest
        /\ SenderInstalled
        /\ RequestCommonModes = {})
       => /\ Len(last'.sent) = 1
          /\ last'.sent[1].command = KISS_CMD_NEG_RESP
          /\ ~last'.sent[1].data.accepted]_vars

\* C15: initiator, acceptance: after initiate_negotiation the block is
\* negotiating and has emitted (to the installed sender) one NEG_REQ; when
\* a NEG_RESP(accepted=true, m) is then handled, the negotiated mode becomes
\* m, exactly one NEG_ACK is emitted and is_negotiating becomes false.
C15_InitiatorAccepted ==
    [][/\ last'.fn = "initiate_negotiation"
          => /\ neg'.d_negotiating
             /\ neg'.d_remote_station_id = last'.args.remote_station_id
             /\ SenderInstalled =>
                   /\ Len(last'.sent) = 1
                   /\ last'.sent[1].command = KISS_CMD_NEG_REQ
                   /\ last'.sent[1].data.proposed_mode = neg'.d_pending_mode
       /\ (HandlesResponse /\ neg.d_negotiating /\ last'.args.data.accepted)
          => /\ neg'.d_negotiated_mode = last'.args.data.negotiated_mode
             /\ ~neg'.d_negotiating
             /\ SenderInstalled =>
                   last'.sent = <<KissFrame(KISS_CMD_NEG_ACK,
                                     encode_mode_change(neg.d_station_id,
                                         last'.args.data.negotiated_mode))>>]_vars

\* The negotiation that proposed 16-QAM to PEER1 has been answered by
\* PEER1 with NEG_RESP(accepted=true, QPSK): QPSK is the negotiated mode,
\* one NEG_ACK has been given to the sender and the block is idle.
C15_Witness ==
    /\ last.fn = "handle_negotiation_frame"
    /\ last.args.command = KISS_CMD_NEG_RESP
    /\ decodes(last.args.data)
    /\ last.args.data.accepted
    /\ last.args.data.station_id = Station1
    /\ last.args.data.negotiated_mode = MODE_QPSK
    /\ neg.d_remote_station_id = Station1
    /\ neg.d_pending_mode = MODE_QAM16
    /\ neg.d_negotiated_mode = MODE_QPSK
    /\ ~neg.d_negotiating
    /\ Len(last.sent) = 1
    /\ last.sent[1].command = KISS_CMD_NEG_ACK

C17_AutoNegotiationReturns ==
    [][(/\ last'.fn = "work"
        /\ FindsModeChange
        /\ SenderInstalled
        /\ neg.d_remote_station_id # "")
       => /\ d_mutex' = "none"
          /\ last'.ret = 0
          /\ neg'.d_negotiating
          /\ neg'.d_last_monitored_mode = get_modulation_mode
          /\ Len(last'.sent) = Cardinality(DOMAIN neg.d_negotiated_modes) + 1
          /\ \A i \in 1..Cardinality(DOMAIN neg.d_negotiated_modes) :
                 last'.sent[i] = KissFrame(KISS_CMD_MODE_CHANGE,
                                     encode_mode_change(neg.d_station_id,
                                                        get_modulation_mode))
          /\ last'.sent[Len(last'.sent)].command = KISS_CMD_NEG_REQ]_vars

(***************************************************************************)
(* Properties of the rate control block.                                   *)
(***************************************************************************)
\* The Tier-4 (broadband SOQPSK) modes of modulation_mode_t.
SOQPSKModes == MODE_SOQPSK_1M..MODE_SOQPSK_40M

\* C18: while Tier 4 is disabled, the current modulation mode of the rate
\* control is not a Tier-4 (SOQPSK) mode, whatever calls of the constructor,
\* set_modulation_mode, set_tier4_enabled, set_adaptation_enabled and
\* update_quality came before.
C18_NoTier4WhileDisabled ==
    ~rc.d_enable_tier4 => rc.d_current_mode \notin SOQPSKModes

\* set_modulation_mode has just been given a SOQPSK mode with Tier 4
\* disabled, after an update_quality with an SNR of 22.5 dB or more since
\* the last construction or mode setting; the mode is not a SOQPSK mode.
C18_Witness ==
    /\ last.fn = "set_modulation_mode"
    /\ last.args.mode \in SOQPSKModes
    /\ ~rc.d_enable_tier4
    /\ rc.d_last_snr_db > dB(22)
    /\ rc.d_current_mode \notin SOQPSKModes

\* The step is an update_quality whose SNR is within the hysteresis band of
\* the current mode, with ber and score within the mode's limits.
UpdateWithinBand ==
    LET current_thresholds == get_thresholds(rc.d_current_mode)
    IN  /\ last'.fn = "update_quality"
        /\ last'.args.snr_db >= current_thresholds.snr_min_dB - rc.d_hysteresis_db
        /\ last'.args.snr_db <= current_thresholds.snr_max_dB + rc.d_hysteresis_db
        /\ last'.args.ber <= current_thresholds.ber_max
        /\ last'.args.quality_score >= current_thresholds.quality_min

\* C19: with adaptation enabled and hysteresis H, an update_quality whose
\* snr is within [snr_min - H, snr_max + H] of the current mode, with ber
\* and score within the current mode's limits, does not change the current
\* mode; so after an upward switch such an update does not switch back.
C19_NoSwitchWithinBand ==
    [][UpdateWithinBand
       => /\ rc'.d_current_mode = rc.d_current_mode
          /\ rc'.d_last_mode = rc.d_last_mode]_vars

\* After the switch upward from 4FSK to 64-QAM at 12500 baud (snr_min 22
\* dB), an update_quality with an SNR of 21 dB has left the mode as it is.
C19_Witness ==
    /\ last.fn = "update_quality"
    /\ rc.d_adaptation_enabled
    /\ last.args.snr_db = dB(21)
    /\ rc.d_last_snr_db = dB(21)
    /\ rc.d_last_mode = MODE_4FSK
    /\ rc.d_current_mode = MODE_QAM64_12500
    /\ rc.d_hysteresis_db = dB(2)

\* C20: recommend_mode is monotone in snr when ber is 0: of two calls, one
\* after the other, the one with the greater snr returns a mode whose
\* bit-rate is at least that of the other, over the whole snr range.
C20_RecommendMonotone ==
    [][(/\ last.fn = "recommend_mode" /\ last'.fn = "recommend_mode"
        /\ last.args.ber = 0 /\ last'.args.ber = 0
        /\ last.args.snr_db <= last'.args.snr_db)
       => data_rate(last.ret) <= data_rate(last'.ret)]_vars

(***************************************************************************)
(* The Reed-Solomon codec.                                                 *)
(***************************************************************************)
\* The data of the codeword that the last decode was given, and the word it
\* was given.
DataSent == SparseVector(d_reed_solomon_encoder.d_k, last.args.data)
WordReceived == WithErrors(encode(d_reed_solomon_encoder, DataSent), last.args.error)

\* C21: for a codeword c of encode and an error pattern e of at most t
\* octets at any places, decode(c xor e) returns the k data octets of c.
C21_CorrectsUpToTErrors ==
    (/\ last.fn = "decode"
     /\ Cardinality(last.args.error) <= d_reed_solomon_decoder.d_t)
    => last.ret = DataSent

\* C22: decode(encode(d)) = d for every data vector d of k octets.
C22_DecodeOfEncode ==
    (last.fn = "decode" /\ last.args.error = {}) => last.ret = DataSent

\* C23: when decoding fails (L > t, or the number of roots found is not L),
\* decode returns the first k received octets as they were, and what it
\* returns tells the caller that the block was uncorrectable: it is not what a
\* decode that found nothing to correct returns.
DecodingFailed == last.left_at \in {"too many errors", "error count mismatch"}
C23_FailureIsSignalled ==
    (last.fn = "decode" /\ DecodingFailed)
    => /\ last.ret = resize(WordReceived, d_reed_solomon_decoder.d_k)
       /\ LET clean == decode_run(d_reed_solomon_decoder, Zeros(CodeLength))
          IN  clean.left_at = "no errors" => last.ret # clean.result

\* C24: with the tables of initialize, for non-zero a, b, c: multiply is
\* commutative and associative, multiply(a, 1) = a, and
\* multiply(a, divide(1, a)) = 1.
C24_FieldLaws ==
    LET gf == d_reed_solomon_encoder.d_gf
        a == last.args.a
        b == last.args.b
    IN  /\ last.fn = "multiply" =>
              /\ last.ret = multiply(gf, b, a)
              /\ b = 1 => last.ret = a
              /\ \A c \in GFOperands :
                    multiply(gf, last.ret, c) = multiply(gf, a, multiply(gf, b, c))
        /\ (last.fn = "divide" /\ a = 1) => multiply(gf, b, last.ret) = 1

(***************************************************************************)
(* Properties of the frame codec.                                          *)
(***************************************************************************)
\* The frame that the last ax25_parse_frame was to reproduce, and what it
\* produced.
FrameSent == last.args.frame
FrameParsed == last.ret.frame
SameAddress(a, b) == a.callsign = b.callsign /\ a.ssid = b.ssid

\* C25: parsing the octets that ax25_encode_frame produced for a well-formed
\* frame succeeds and gives the same number of addresses, the same
\* addresses, control, PID where the frame has one, information field, and
\* the FCS that was sent.
C25_ParseOfEncode ==
    (last.fn = "ax25_parse_frame" /\ last.args.damage = "none")
    => /\ last.ret.ret = 0
       /\ FrameParsed.num_addresses = FrameSent.num_addresses
       /\ \A i \in 1..FrameSent.num_addresses :
              SameAddress(FrameParsed.addresses[i], FrameSent.addresses[i])
       /\ FrameParsed.control = FrameSent.control
       /\ BitAnd(FrameSent.control, 3) = 3 => FrameParsed.pid = FrameSent.pid
       /\ FrameParsed.info_length = FrameSent.info_length
       /\ FrameParsed.info = FrameSent.info
       /\ FrameParsed.fcs = TrailingFcs(last.args.data)

\* CRC-16/X-25: the reflected CRC-16-CCITT, register 0xFFFF at the start,
\* octets taken LSB first, result inverted.
RECURSIVE X25Bits(_, _)
X25Bits(crc, j) ==
    IF j = 0 THEN crc
    ELSE X25Bits(IF crc % 2 = 1 THEN BitXor(crc \div 2, 33800) ELSE crc \div 2, j - 1)
RECURSIVE X25Register(_, _)
X25Register(data, n) ==
    IF n = 0 THEN 65535
    ELSE LET before == X25Register(data, n - 1)
         IN  IF before = before THEN X25Bits(BitXor(before, data[n]), 8) ELSE before
CRC16_X25(data) == BitXor(X25Register(data, Len(data)), 65535)

\* C26: ax25_calculate_fcs of an octet string is its CRC-16/X-25.
C26_FcsIsX25 ==
    last.fn = "ax25_calculate_fcs" => last.ret = CRC16_X25(last.args.data)

\* C27: ax25_check_fcs accepts an octet string followed by its FCS, and
\* rejects it when one bit of the string or of the FCS was flipped.
C27_CheckFcsDetectsOneFlip ==
    last.fn = "ax25_check_fcs" => (last.ret <=> last.args.flip = 0)
C27_FlipRejected ==
    /\ last.fn = "ax25_check_fcs"
    /\ Len(last.args.data) = 2
    /\ last.args.flip \in 1..16
    /\ ~last.ret

\* C28: received octets whose two trailing octets are not the FCS of the
\* octets before them are not reported valid, neither by ax25_parse_frame
\* nor by ax25_validate_frame on the frame it filled.
FcsMismatch(data) ==
    TrailingFcs(data) # ax25_calculate_fcs(SubSeq(data, 1, Len(data) - 2), Len(data) - 2)
C28_BadFcsRejected ==
    (last.fn = "ax25_parse_frame" /\ FcsMismatch(last.args.data))
    => /\ last.ret.ret # 0
       /\ last.ret.validate # 0

\* The bits of an octet string, bit 0 of each octet first.
BitsOfOctets(data) == [t \in 1..(8 * Len(data)) |-> BitOf(data[((t - 1) \div 8) + 1], (t - 1) % 8)]

\* C29: unstuffing the stuffed octets gives back the bits of the input (the
\* bits that follow them come from what the last stuffed octet held beyond
\* the stuffed bits).
C29_UnstuffOfStuff ==
    last.fn = "ax25_bit_unstuff"
    => /\ last.ret.ret = 0
       /\ last.ret.output_len >= 8 * Len(last.args.input)
       /\ SubSeq(last.ret.bits, 1, 8 * Len(last.args.input)) = BitsOfOctets(last.args.input)

(***************************************************************************)
(* Properties of the negotiation payloads.                                 *)
(***************************************************************************)
NegDecoders ==
    {"decode_negotiation_request", "decode_negotiation_response",
     "decode_mode_change", "decode_quality_feedback"}

\* C30: for each of the four message types, decoding the encoded payload
\* succeeds and returns the fields that were encoded (station id of 0 to 255
\* octets, any mode, a list of supported modes of 0 to 255 entries).
C30_NegDecodeOfEncode ==
    last.fn \in NegDecoders => (last.ret.ok /\ last.ret.fields = last.args)

(***************************************************************************)
(* Properties of the negotiation block's locking.                          *)
(***************************************************************************)
\* C31: the block does not hold d_mutex while its sender runs or while it
\* calls the rate control block, and a sender that calls
\* get_negotiated_mode() or is_negotiating() gets an answer, whichever
\* function of the block invoked it.
C31_NoLockAcrossCalls ==
    /\ SenderRunning => d_mutex = "none"
    /\ last.fn = "get_modulation_mode" => d_mutex = "none"
    /\ last.fn \in {"get_negotiated_mode", "is_negotiating"} => ~last.ret.blocked

(***************************************************************************)
(* Properties of the two branches of update_quality.                       *)
(***************************************************************************)
\* The step is an update_quality, with adaptation enabled, that takes the
\* improvement branch on the thresholds of the current mode.
UpdateImproves ==
    /\ last'.fn = "update_quality"
    /\ rc.d_adaptation_enabled
    /\ ImprovementBranch(last'.args.snr_db, last'.args.ber, last'.args.quality_score)

\* The step is an update_quality, with adaptation enabled, that takes the
\* degradation branch on the thresholds of the current mode.
UpdateDegrades ==
    /\ last'.fn = "update_quality"
    /\ rc.d_adaptation_enabled
    /\ DegradationBranch(last'.args.snr_db, last'.args.ber, last'.args.quality_score)

\* C32: an update_quality that takes the improvement branch changes the
\* current mode only to a mode of strictly higher bit-rate, for any snr: the
\* bit-rate never decreases in this branch.
C32_ImprovementRaisesRate ==
    [][(UpdateImproves /\ rc'.d_current_mode # rc.d_current_mode)
       => data_rate(rc'.d_current_mode) > data_rate(rc.d_current_mode)]_vars

\* C33: an update_quality that takes the degradation branch changes the
\* current mode only to a more robust mode: the bit-rate of the mode never
\* increases in this branch.
C33_DegradationLowersRate ==
    [][UpdateDegrades
       => data_rate(rc'.d_current_mode) <= data_rate(rc.d_current_mode)]_vars

(***************************************************************************)
(* Properties of the address and control fields on the wire.               *)
(***************************************************************************)
\* The seventh octet of address i (from 0) of the octets just encoded.
SsidOctet(i) == last.ret.data[(7 * i) + 7]

\* C34: in every frame that ax25_encode_frame produces from addresses built
\* by ax25_set_address, the end-of-address bit (bit 0 of the seventh address
\* octet) is 1 on the last address and 0 on every other address.
C34_EndOfAddressOnLastOnly ==
    (last.fn = "ax25_encode_frame" /\ last.ret.ret = 0)
    => \A i \in 0..(FrameSent.num_addresses - 1) :
          (SsidOctet(i) % 2 = 1) <=> (i = FrameSent.num_addresses - 1)

\* The control octet denotes an I frame (bit 0 clear) or a UI frame.
IsIOrUI(control) == control % 2 = 0 \/ BitAnd(control, 239) = AX25_CTRL_UI

\* The number of octets of a frame on the wire whose PID octet is there
\* exactly for I and UI frames: addresses, control, PID, information, FCS.
WireLength(num_addresses, control, info_length) ==
    (7 * num_addresses) + 1 + (IF IsIOrUI(control) THEN 1 ELSE 0) + info_length + 2

\* C35: ax25_encode_frame emits a PID octet, and ax25_parse_frame consumes
\* one, exactly when the control octet denotes an I frame or a UI frame: the
\* octets encoded, and the information field parsed from them, have the
\* length that goes with that.
C35_PidForIAndUIOnly ==
    /\ (last.fn = "ax25_encode_frame" /\ last.ret.ret = 0)
       => last.ret.length
             = WireLength(FrameSent.num_addresses, FrameSent.control, FrameSent.info_length)
    /\ (last.fn = "ax25_parse_frame" /\ last.args.damage = "none" /\ last.ret.ret = 0)
       => Len(last.args.data)
             = WireLength(FrameParsed.num_addresses, FrameParsed.control,
                          FrameParsed.info_length)

\* C36: ax25_get_address on an address that ax25_set_address built returns
\* the uppercased callsign without padding, the SSID and the C bit, for every
\* callsign of 1 to 6 characters and every SSID in 0..15.
C36_GetOfSetAddress ==
    last.fn = "ax25_get_address"
    => /\ last.ret.ret = 0
       /\ last.ret.callsign = [i \in 1..Len(last.args.callsign) |->
                                  toupper(last.args.callsign[i])]
       /\ last.ret.ssid = last.args.ssid
       /\ last.ret.command = last.args.command

(***************************************************************************)
(* Properties of the negotiated mode.                                      *)
(***************************************************************************)
\* C37: after any sequence of initiate_negotiation calls and received
\* NEG_REQ, NEG_RESP and MODE_CHANGE frames, the negotiated mode is one of
\* the block's own supported modes (when it has any).
C37_NegotiatedModeSupported ==
    Len(neg.d_supported_modes) > 0 => mode_supported(neg.d_negotiated_mode)

\* The NEG_RESP handled in the step answers the outstanding request: a
\* negotiation is in progress and the response comes from the station the
\* NEG_REQ was sent to.
AnswersRequest ==
    /\ neg.d_negotiating
    /\ last'.args.data.station_id = neg.d_remote_station_id

\* C38: a received NEG_RESP changes the negotiated mode and triggers a
\* NEG_ACK only when it answers the outstanding request; a NEG_RESP received
\* while idle, or from another station, leaves the negotiated mode and
\* is_negotiating unchanged.
C38_ResponseAnswersRequest ==
    [][(HandlesResponse /\ ~AnswersRequest)
       => /\ neg'.d_negotiated_mode = neg.d_negotiated_mode
          /\ neg'.d_negotiating = neg.d_negotiating
          /\ last'.sent = <<>>]_vars

(***************************************************************************)
(* Properties of the TNC's frame slots.                                    *)
(***************************************************************************)
\* The calls that store a frame in tnc->tx_frame.
QueueCalls == {"ax25_connect", "ax25_send_data", "ax25_send_ui_frame", "ax25_disconnect"}

\* ax25_receive_data has a frame to return data from: the tests it makes
\* before it looks for the connection.
Deliverable ==
    /\ frame_ready
    /\ rx_frame.valid
    /\ rx_frame.num_addresses >= 2
    /\ IsIFrame(rx_frame)

\* C39: each received I-frame is delivered by ax25_receive_data at most
\* once: a successful ax25_receive_data leaves nothing to deliver, and while
\* there is nothing to deliver no ax25_connect, ax25_send_data,
\* ax25_send_ui_frame or ax25_disconnect makes the frame in rx_frame
\* deliverable again.
C39_DeliveredOnce ==
    [][/\ (last'.fn = "ax25_receive_data" /\ last'.ret = 0) => ~Deliverable'
       /\ (last'.fn \in QueueCalls /\ ~Deliverable) => ~Deliverable']_vars

\* C40: a frame queued by a successful ax25_connect, ax25_send_data,
\* ax25_send_ui_frame or ax25_disconnect is not overwritten by a successful
\* call that follows it before anything has taken the frame: the frame in
\* tx_frame is still the one queued.
C40_QueuedFrameKept ==
    [][(/\ last.fn \in QueueCalls /\ last.ret = 0
        /\ tx_frame.valid /\ frame_ready
        /\ last'.fn \in QueueCalls /\ last'.ret = 0)
       => tx_frame' = tx_frame]_vars

====
